---- MODULE Spec2Model ----
(***************************************************************************)
(* A model of src/src/App.jsx (the second, current copy of the component   *)
(* in that file, lines 856-2005): the path normaliser, the leg extractor,  *)
(* the position resolver, the per-scenario precomputation with its         *)
(* cumulative emission curves, the emission queries, the carbon-credit     *)
(* leaderboard with its previous-score ref, and the reasoning log.         *)
(*                                                                         *)
(* Representation of JavaScript values.                                    *)
(*   - An optional value (undefined or null, both "nullish" for ?? and     *)
(*     ?.) is the empty sequence None; a present value v is Some(v) =      *)
(*     <<v>>.  Numeric fields hold numbers or are absent, so               *)
(*     typeof x === 'number' is x # None.                                  *)
(*   - Numbers are integers.  Times are whole seconds, distances whole     *)
(*     kilometres (an explicit distance in metres is a multiple of 1000),  *)
(*     emission factors whole g/km.  A position is a pair of reduced       *)
(*     fractions <<n, d>>, so linear interpolation is exact.               *)
(*   - A string whose characters matter (a rationale) is a sequence of     *)
(*     one-character strings; a mode or an id is a TLA+ string.            *)
(*   - A function that can throw returns a record with a field threw.      *)
(***************************************************************************)
EXTENDS Integers, Sequences, FiniteSets, TLC

VARIABLES
    call          \* the helper-function call under check: its arguments and result

-----------------------------------------------------------------------------
(* JavaScript values *)

None == <<>>

Some(v) == <<v>>

\* a ?? b
Coalesce(a, b) == IF a # None THEN a ELSE b

\* The property key JavaScript makes of an optional mode (obj[undefined] is obj["undefined"]).
KeyOf(mode) == IF mode = None THEN "undefined" ELSE mode[1]

\* obj[key] of a table held as a function from keys to numbers.
Lookup(table, mode) ==
    IF KeyOf(mode) \in DOMAIN table THEN Some(table[KeyOf(mode)]) ELSE None

Abs(n) == IF n < 0 THEN -n ELSE n

Min2(a, b) == IF a <= b THEN a ELSE b

Max2(a, b) == IF a >= b THEN a ELSE b

RECURSIVE Gcd(_, _)
Gcd(a, b) == IF b = 0 THEN a ELSE Gcd(b, a % b)

\* The number n / d (d # 0) as a reduced fraction with a positive denominator.
Frac(n, d) ==
    LET g == Gcd(Abs(n), Abs(d))
        s == IF d < 0 THEN -1 ELSE 1
    IN  <<(s * n) \div g, (s * d) \div g>>

\* a / b where the quotient is a whole number (the model's inputs keep it so).
ExactDiv(a, b) == CHOOSE q \in {a \div b} : q * b = a

-----------------------------------------------------------------------------
(* Distances.  Coordinates of input points are whole degrees 0 or 1. *)

\* haversineKm on that grid, rounded to the kilometre: one degree along a
\* meridian or along the equator is 111.19 km, the diagonal 157.25 km.
haversineKm(a, b) ==
    LET dLng == Abs(b.lng[1] - a.lng[1])
        dLat == Abs(b.lat[1] - a.lat[1])
    IN  IF dLng = 0 /\ dLat = 0 THEN 0
        ELSE IF dLng = 0 \/ dLat = 0 THEN 111 * (dLng + dLat)
        ELSE 157 * dLng

RECURSIVE DistFrom(_, _)
DistFrom(path, i) ==
    IF i > Len(path) THEN 0
    ELSE haversineKm(path[i - 1], path[i]) + DistFrom(path, i + 1)

\* The distance from the first point of the path straight to the last.
computeLegDistanceEndToEnd(path) ==
    IF Len(path) < 2 THEN 0 ELSE haversineKm(path[1], path[Len(path)])

\* for (let i = 1; i < path.length; i++) dist += haversineKm(path[i - 1], path[i])
computeLegDistanceKm(path) == DistFrom(path, 2)

-----------------------------------------------------------------------------
(* Path normaliser *)

\* The callback of path.map: a raw point (null, a tuple, an object, or some
\* other value) to a cleaned point {lng, lat, t}, or null.
CleanPoint(point) ==
    IF point = None THEN None
    ELSE LET p == point[1]
         IN  IF p.form = "tuple"
             THEN Some([lng |-> p.lng, lat |-> p.lat, t |-> p.t])
             ELSE IF p.form = "object"
             THEN LET lng == Coalesce(Coalesce(Coalesce(p.lng, p.lon), p.longitude), p.x)
                      lat == Coalesce(Coalesce(p.lat, p.latitude), p.y)
                      time == Coalesce(Coalesce(p.t, p.time), p.timestamp)
                  IN  IF lng = None \/ lat = None THEN None
                      ELSE Some([lng |-> lng, lat |-> lat, t |-> time])
             ELSE None

\* path.map(...).filter(Boolean)
CleanedPoints(points) ==
    LET mapped == [i \in 1..Len(points) |-> CleanPoint(points[i])]
        kept == SelectSeq(mapped, LAMBDA c : c # None)
    IN  [i \in 1..Len(kept) |-> kept[i][1]]

\* The normaliser when a point that carries a time keeps it while the others
\* get synthesised ones (t: p.t ?? ...).
normalizePathKeepingTimes(path, startTime, endTime) ==
    IF path = None THEN <<>>
    ELSE LET cleaned == CleanedPoints(path[1])
             n == Len(cleaned)
         IN  IF n = 0 THEN <<>>
             ELSE IF \A i \in 1..n : cleaned[i].t # None THEN cleaned
             ELSE IF startTime = None \/ endTime = None \/ endTime[1] <= startTime[1]
             THEN LET base == IF startTime # None THEN startTime[1] ELSE 0
                  IN  [i \in 1..n |->
                         [cleaned[i] EXCEPT !.t = Coalesce(cleaned[i].t, Some(base))]]
             ELSE LET duration == endTime[1] - startTime[1]
                      steps == IF n - 1 # 0 THEN n - 1 ELSE 1
                  IN  [i \in 1..n |->
                         [cleaned[i] EXCEPT
                            !.t = Coalesce(cleaned[i].t,
                                     Some(startTime[1] + ExactDiv(duration * (i - 1), steps)))]]

\* path is None for a value that is not an array.
normalizePathWithTime(path, startTime, endTime) ==
    IF path = None THEN <<>>
    ELSE LET cleaned == CleanedPoints(path[1])
             n == Len(cleaned)
         IN  IF n = 0 THEN <<>>
             ELSE IF \A i \in 1..n : cleaned[i].t # None THEN cleaned
             ELSE IF startTime = None \/ endTime = None \/ endTime[1] <= startTime[1]
             THEN LET base == IF startTime # None THEN startTime[1] ELSE 0
                  IN  [i \in 1..n |-> [cleaned[i] EXCEPT !.t = Some(base)]]
             ELSE LET duration == endTime[1] - startTime[1]
                      steps == IF n - 1 # 0 THEN n - 1 ELSE 1
                  IN  [i \in 1..n |->
                         [cleaned[i] EXCEPT
                            !.t = Some(startTime[1] + ExactDiv(duration * (i - 1), steps))]]

-----------------------------------------------------------------------------
(* Leg extractor *)

\* rawPath?.[i]?.t on a raw path (0 < i): the t property of the raw element,
\* which only an object-form point has.
RawPointT(rawPath, i) ==
    IF rawPath = None THEN None
    ELSE IF i < 1 \/ i > Len(rawPath[1]) THEN None
    ELSE IF rawPath[1][i] = None THEN None
    ELSE IF rawPath[1][i][1].form = "object" THEN rawPath[1][i][1].t
    ELSE None

\* The callback of legs.map when the leg's end is read from the start keys.
ExtractLegEndFromStart(leg, a) ==
    LET start == Coalesce(Coalesce(leg.start_time, leg.startTime), RawPointT(leg.path, 1))
        path == normalizePathWithTime(Coalesce(leg.path, Some(<<>>)), start, start)
    IN  [leg EXCEPT !.mode = Coalesce(leg.mode, a.mode), !.path = path]

\* The callback of legs.map in extractLegs.
ExtractLeg(leg, a) ==
    LET start == Coalesce(Coalesce(leg.start_time, leg.startTime), RawPointT(leg.path, 1))
        end == Coalesce(Coalesce(leg.end_time, leg.endTime),
                        IF leg.path = None THEN None
                        ELSE RawPointT(leg.path, Len(leg.path[1])))
        path == normalizePathWithTime(Coalesce(leg.path, Some(<<>>)), start, end)
    IN  [leg EXCEPT !.mode = Coalesce(leg.mode, a.mode), !.path = path]

\* The callback of timeline.filter(...).map in extractLegs.
ExtractMove(move, a) ==
    [type |-> None,
     start_time |-> Coalesce(Coalesce(move.start_time, move.startTime), Some(0)),
     startTime |-> None,
     end_time |-> Coalesce(Coalesce(move.end_time, move.endTime), Some(0)),
     endTime |-> None,
     mode |-> Coalesce(move.mode, a.mode),
     duration_s |-> Coalesce(Coalesce(move.duration_s, move.duration), Some(0)),
     duration |-> None,
     distance_m |-> Coalesce(move.distance_m, move.distance),
     distance |-> None,
     distance_km |-> None,
     reasoning |-> move.reasoning,
     rationale |-> move.rationale,
     path |-> normalizePathWithTime(Coalesce(move.path, Some(<<>>)),
                 Coalesce(Coalesce(move.start_time, move.startTime), Some(0)),
                 Coalesce(Coalesce(move.end_time, move.endTime), Some(0)))]

\* A timeline that yields one movement although the agent has none.
TimelineMovesDefaulted(a) ==
    IF a.timeline = None
    THEN <<Some([type |-> Some("move"), start_time |-> None, startTime |-> None,
                 end_time |-> None, endTime |-> None, mode |-> None,
                 duration_s |-> None, duration |-> None,
                 distance_m |-> None, distance |-> None, distance_km |-> None,
                 reasoning |-> a.reasoning, rationale |-> a.rationale,
                 path |-> None])>>
    ELSE SelectSeq(a.timeline[1],
                   LAMBDA e : IF e = None THEN FALSE ELSE e[1].type = Some("move"))

\* The timeline without the filter on the entry's type: every entry is taken
\* for a movement.
TimelineMovesUnfiltered(a) ==
    IF a.timeline = None THEN <<>>
    ELSE SelectSeq(a.timeline[1], LAMBDA e : e # None)

\* agent.timeline.filter((entry) => entry?.type === 'move'), empty when
\* agent.timeline is not an array.
TimelineMoves(a) ==
    IF a.timeline = None THEN <<>>
    ELSE SelectSeq(a.timeline[1],
                   LAMBDA e : IF e = None THEN FALSE ELSE e[1].type = Some("move"))

\* extractLegs(agent): threw is TRUE when the call raises a TypeError, which it
\* does on reading leg.start_time of a null element of agent.legs.
extractLegs(agent) ==
    IF agent = None THEN [threw |-> FALSE, legs |-> <<>>]
    ELSE LET a == agent[1]
             legs == IF a.legs # None THEN a.legs[1] ELSE <<>>
             moves == TimelineMoves(a)
         IN  IF Len(legs) > 0
             THEN IF \E i \in 1..Len(legs) : legs[i] = None
                  THEN [threw |-> TRUE, legs |-> <<>>]
                  ELSE [threw |-> FALSE,
                        legs |-> [i \in 1..Len(legs) |-> ExtractLeg(legs[i][1], a)]]
             ELSE [threw |-> FALSE,
                   legs |-> [i \in 1..Len(moves) |-> ExtractMove(moves[i][1], a)]]

-----------------------------------------------------------------------------
(* Position resolver *)

\* [lng, lat] of a path point, as fractions.
Coord(p) == <<Frac(p.lng[1], 1), Frac(p.lat[1], 1)>>

\* p + f * (q - p) with f = fn / fd, for one coordinate.
Blend(p, q, fn, fd) == Frac(p * fd + fn * (q - p), fd)

RECURSIVE Bracket(_, _, _)
\* Bracket with a slip: the earlier point of the bracketing pair is returned
\* as it is, without blending.
BracketEarlierPoint(path, t, i) ==
    IF i > Len(path) - 1 THEN None
    ELSE LET p == path[i]
             q == path[i + 1]
         IN  IF t >= p.t[1] /\ t <= q.t[1]
             THEN Some(Coord(p))
             ELSE Bracket(path, t, i + 1)

\* The loop of interpolateLngLat from index i (1-based): the first consecutive
\* pair whose times bracket t, blended; None when there is none.
Bracket(path, t, i) ==
    IF i > Len(path) - 1 THEN None
    ELSE LET p == path[i]
             q == path[i + 1]
         IN  IF t >= p.t[1] /\ t <= q.t[1]
             THEN Some(<<Blend(p.lng[1], q.lng[1], t - p.t[1], q.t[1] - p.t[1]),
                         Blend(p.lat[1], q.lat[1], t - p.t[1], q.t[1] - p.t[1])>>)
             ELSE Bracket(path, t, i + 1)

interpolateLngLat(path, t) ==
    IF Len(path) = 0 THEN None
    ELSE LET n == Len(path)
         IN  IF t <= path[1].t[1] THEN Some(Coord(path[1]))
             ELSE IF t >= path[n].t[1] THEN Some(Coord(path[n]))
             ELSE Bracket(path, t, 1)

RECURSIVE ScanLegs(_, _, _, _)

\* ScanLegs with a slip: a leg not yet started no longer wins over an earlier
\* completed leg (the fallback is returned instead).
ScanLegsCompletedFirst(agent, time, i, fallback) ==
    IF i > Len(agent.legs) THEN fallback
    ELSE LET leg == agent.legs[i]
             path == leg.path
             n == Len(path)
         IN  IF n = 0 THEN ScanLegs(agent, time, i + 1, fallback)
             ELSE LET start == Coalesce(Coalesce(leg.start_time, leg.startTime), path[1].t)
                      end == Coalesce(Coalesce(leg.end_time, leg.endTime), path[n].t)
                      mode == Coalesce(leg.mode, agent.mode)
                  IN  IF start = None \/ end = None \/ end = start
                      THEN ScanLegs(agent, time, i + 1, fallback)
                      ELSE IF time <= start[1]
                      THEN IF fallback # None THEN fallback
                           ELSE Some([position |-> Coord(path[1]), mode |-> mode])
                      ELSE IF time >= end[1]
                      THEN ScanLegs(agent, time, i + 1,
                                    Some([position |-> Coord(path[n]), mode |-> mode]))
                      ELSE Some([position |-> interpolateLngLat(path, time)[1], mode |-> mode])

\* ScanLegs with a slip: the first completed leg is kept as the fallback
\* instead of the last one.
ScanLegsFirstFallback(agent, time, i, fallback) ==
    IF i > Len(agent.legs) THEN fallback
    ELSE LET leg == agent.legs[i]
             path == leg.path
             n == Len(path)
         IN  IF n = 0 THEN ScanLegs(agent, time, i + 1, fallback)
             ELSE LET start == Coalesce(Coalesce(leg.start_time, leg.startTime), path[1].t)
                      end == Coalesce(Coalesce(leg.end_time, leg.endTime), path[n].t)
                      mode == Coalesce(leg.mode, agent.mode)
                  IN  IF start = None \/ end = None \/ end = start
                      THEN ScanLegs(agent, time, i + 1, fallback)
                      ELSE IF time <= start[1]
                      THEN Some([position |-> Coord(path[1]), mode |-> mode])
                      ELSE IF time >= end[1]
                      THEN ScanLegs(agent, time, i + 1,
                                    IF fallback # None THEN fallback
                                    ELSE Some([position |-> Coord(path[n]), mode |-> mode]))
                      ELSE Some([position |-> interpolateLngLat(path, time)[1], mode |-> mode])

\* ScanLegs with a slip: a leg whose start equals its end, once past, is kept
\* as the fallback instead of being skipped.
ScanLegsDegenerateFallback(agent, time, i, fallback) ==
    IF i > Len(agent.legs) THEN fallback
    ELSE LET leg == agent.legs[i]
             path == leg.path
             n == Len(path)
         IN  IF n = 0 THEN ScanLegs(agent, time, i + 1, fallback)
             ELSE LET start == Coalesce(Coalesce(leg.start_time, leg.startTime), path[1].t)
                      end == Coalesce(Coalesce(leg.end_time, leg.endTime), path[n].t)
                      mode == Coalesce(leg.mode, agent.mode)
                  IN  IF start = None \/ end = None
                      THEN ScanLegs(agent, time, i + 1, fallback)
                      ELSE IF end = start
                      THEN ScanLegs(agent, time, i + 1,
                                    IF time >= end[1]
                                    THEN Some([position |-> Coord(path[n]), mode |-> mode])
                                    ELSE fallback)
                      ELSE IF time <= start[1]
                      THEN Some([position |-> Coord(path[1]), mode |-> mode])
                      ELSE IF time >= end[1]
                      THEN ScanLegs(agent, time, i + 1,
                                    Some([position |-> Coord(path[n]), mode |-> mode]))
                      ELSE LET interpolated == interpolateLngLat(path, time)
                           IN  IF interpolated # None
                               THEN Some([position |-> interpolated[1], mode |-> mode])
                               ELSE Some([position |->
                                            <<Blend(path[1].lng[1], path[n].lng[1],
                                                    time - start[1], end[1] - start[1]),
                                              Blend(path[1].lat[1], path[n].lat[1],
                                                    time - start[1], end[1] - start[1])>>,
                                          mode |-> mode])

\* The for loop of getAgentPosition from leg i, with the fallback found so far.
ScanLegs(agent, time, i, fallback) ==
    IF i > Len(agent.legs) THEN fallback
    ELSE LET leg == agent.legs[i]
             path == leg.path
             n == Len(path)
         IN  IF n = 0 THEN ScanLegs(agent, time, i + 1, fallback)
             ELSE LET start == Coalesce(Coalesce(leg.start_time, leg.startTime), path[1].t)
                      end == Coalesce(Coalesce(leg.end_time, leg.endTime), path[n].t)
                      mode == Coalesce(leg.mode, agent.mode)
                  IN  IF start = None \/ end = None \/ end = start
                      THEN ScanLegs(agent, time, i + 1, fallback)
                      ELSE IF time <= start[1]
                      THEN Some([position |-> Coord(path[1]), mode |-> mode])
                      ELSE IF time >= end[1]
                      THEN ScanLegs(agent, time, i + 1,
                                    Some([position |-> Coord(path[n]), mode |-> mode]))
                      ELSE LET interpolated == interpolateLngLat(path, time)
                           IN  IF interpolated # None
                               THEN Some([position |-> interpolated[1], mode |-> mode])
                               ELSE Some([position |->
                                            <<Blend(path[1].lng[1], path[n].lng[1],
                                                    time - start[1], end[1] - start[1]),
                                              Blend(path[1].lat[1], path[n].lat[1],
                                                    time - start[1], end[1] - start[1])>>,
                                          mode |-> mode])

\* getAgentPosition(agent, time) on an agent of precomputed.agents: None is null.
getAgentPosition(agent, time) ==
    IF Len(agent.legs) = 0 THEN None
    ELSE ScanLegs(agent, time, 1, None)

-----------------------------------------------------------------------------
(* Scenario precomputation: canonical agents and cumulative curves *)

DEFAULT_EF == [car_ice |-> 200, car_ev |-> 100, bus |-> 40, bike |-> 0, walk |-> 0]

\* A rationale field that is absent.
NoText == [kind |-> "undefined", chars |-> <<>>, items |-> <<>>, text |-> None]

\* { ...a, legs } for a null element of scenario.agents.
NullAgent ==
    [id |-> None, mode |-> None, legs |-> <<>>, timeline |-> None,
     reasoning |-> NoText, rationale |-> NoText]

\* leg.end_time ?? path[path.length - 1]?.t of a canonical leg.
LegEnd(leg) ==
    Coalesce(leg.end_time, IF Len(leg.path) = 0 THEN None ELSE leg.path[Len(leg.path)].t)

\* leg.start_time ?? path[0]?.t of a canonical leg.
LegStart(leg) ==
    Coalesce(leg.start_time, IF Len(leg.path) = 0 THEN None ELSE leg.path[1].t)

\* The callback when the factor is looked up under the leg's mode alone
\* (ef[legMode] ?? 0).
PrecomputeLegOwnModeOnly(leg, a, ef) ==
    LET legMode == Coalesce(leg.mode, a.mode)
        path == leg.path
        distance_km == IF leg.distance_m # None
                       THEN ExactDiv(leg.distance_m[1], 1000)
                       ELSE computeLegDistanceKm(path)
        factor == Coalesce(Lookup(ef, legMode), Some(0))
        emission_g == distance_km * factor[1]
    IN  [type |-> leg.type,
         start_time |-> leg.start_time, startTime |-> leg.startTime,
         end_time |-> leg.end_time, endTime |-> leg.endTime,
         mode |-> legMode,
         duration_s |-> leg.duration_s, duration |-> leg.duration,
         distance_m |-> leg.distance_m, distance |-> leg.distance,
         reasoning |-> leg.reasoning, rationale |-> leg.rationale,
         path |-> path,
         distance_km |-> distance_km,
         emission_g |-> emission_g]

\* The callback of legsNormalized.map: the leg with its mode, distance and emission.
PrecomputeLeg(leg, a, ef) ==
    LET legMode == Coalesce(leg.mode, a.mode)
        path == leg.path
        distance_km == IF leg.distance_m # None
                       THEN ExactDiv(leg.distance_m[1], 1000)
                       ELSE computeLegDistanceKm(path)
        factor == Coalesce(Coalesce(Lookup(ef, legMode), Lookup(ef, a.mode)), Some(0))
        emission_g == distance_km * factor[1]
    IN  [type |-> leg.type,
         start_time |-> leg.start_time, startTime |-> leg.startTime,
         end_time |-> leg.end_time, endTime |-> leg.endTime,
         mode |-> legMode,
         duration_s |-> leg.duration_s, duration |-> leg.duration,
         distance_m |-> leg.distance_m, distance |-> leg.distance,
         reasoning |-> leg.reasoning, rationale |-> leg.rationale,
         path |-> path,
         distance_km |-> distance_km,
         emission_g |-> emission_g]

\* The callback of agentsSource.map: { ...a, legs }.
PrecomputeAgent(agent, ef) ==
    LET extracted == extractLegs(agent).legs
        a == IF agent = None THEN NullAgent ELSE agent[1]
    IN  [a EXCEPT !.legs = [i \in 1..Len(extracted) |-> PrecomputeLeg(extracted[i], a, ef)]]

RECURSIVE FlattenLegs(_, _)
\* The canonical legs of agents i.. in the order the loops visit them.
FlattenLegs(agents, i) ==
    IF i > Len(agents) THEN <<>>
    ELSE agents[i].legs \o FlattenLegs(agents, i + 1)

\* The {t, emission_g} pushed for each leg of a list that has a completion time.
CompletionEvents(legs) ==
    LET done == SelectSeq(legs, LAMBDA leg : LegEnd(leg) # None)
    IN  [i \in 1..Len(done) |-> [t |-> LegEnd(done[i])[1], emission_g |-> done[i].emission_g]]

RECURSIVE InsertByT(_, _)
InsertByT(sorted, e) ==
    IF Len(sorted) = 0 THEN <<e>>
    ELSE IF Head(sorted).t <= e.t THEN <<Head(sorted)>> \o InsertByT(Tail(sorted), e)
    ELSE <<e>> \o sorted

\* The events left in the order they were pushed.
KeepPushOrder(arr) == arr

RECURSIVE SortByT(_)
\* arr.sort((x, y) => x.t - y.t): ascending by t, stable.
SortByT(arr) ==
    IF Len(arr) = 0 THEN <<>>
    ELSE InsertByT(SortByT(SubSeq(arr, 1, Len(arr) - 1)), arr[Len(arr)])

RECURSIVE SumEmission(_, _)
SumEmission(events, n) ==
    IF n = 0 THEN 0 ELSE SumEmission(events, n - 1) + events[n].emission_g

\* sorted.map((p) => ({ t: p.t, emission_g_cum: (cum += p.emission_g) }))
Cumulate(sorted) ==
    [i \in 1..Len(sorted) |-> [t |-> sorted[i].t, emission_g_cum |-> SumEmission(sorted, i)]]

\* scenario.meta?.emission_factors_g_per_km || DEFAULT_EF
ScenarioEf(s) ==
    IF s.meta # None /\ s.meta[1].emission_factors_g_per_km # None
    THEN s.meta[1].emission_factors_g_per_km[1]
    ELSE DEFAULT_EF

\* byModeTimes when each push replaces the mode's array instead of extending it.
ByModeTimesLastOnly(allLegs) ==
    LET ended == SelectSeq(allLegs, LAMBDA leg : LegEnd(leg) # None)
        modes == {KeyOf(ended[i].mode) : i \in 1..Len(ended)}
    IN  [m \in modes |->
            LET pushed == CompletionEvents(SelectSeq(allLegs, LAMBDA leg : KeyOf(leg.mode) = m))
            IN  <<pushed[Len(pushed)]>>]

\* byModeTimes once every leg is visited: for each mode key, what was pushed.
ByModeTimes(allLegs) ==
    LET ended == SelectSeq(allLegs, LAMBDA leg : LegEnd(leg) # None)
        modes == {KeyOf(ended[i].mode) : i \in 1..Len(ended)}
    IN  [m \in modes |->
            CompletionEvents(SelectSeq(allLegs, LAMBDA leg : KeyOf(leg.mode) = m))]

\* timesAll before it is sorted.
TimesAll(agents) == CompletionEvents(FlattenLegs(agents, 1))

\* minT: the least leg.start_time ?? path[0].t, 0 when there is none.
MinT(allLegs) ==
    LET starts == {LegStart(allLegs[i])[1] :
                      i \in {j \in 1..Len(allLegs) : LegStart(allLegs[j]) # None}}
    IN  IF starts = {} THEN 0 ELSE CHOOSE x \in starts : \A y \in starts : x <= y

\* maxT: the greatest leg.end_time ?? path[last].t, 24 * 3600 when there is none.
MaxEndT(allLegs) ==
    LET ends == {LegEnd(allLegs[i])[1] :
                    i \in {j \in 1..Len(allLegs) : LegEnd(allLegs[j]) # None}}
    IN  IF ends = {} THEN 24 * 3600 ELSE CHOOSE x \in ends : \A y \in ends : x >= y

\* The precomputed memo for a scenario that is not null; threw when
\* extractLegs raises for one of the agents.
PrecomputeScenario(s) ==
    LET ef == ScenarioEf(s)
        agentsSource == IF s.agents # None THEN s.agents[1] ELSE <<>>
        threw == \E i \in 1..Len(agentsSource) : extractLegs(agentsSource[i]).threw
        agents == [i \in 1..Len(agentsSource) |-> PrecomputeAgent(agentsSource[i], ef)]
        allLegs == FlattenLegs(agents, 1)
        byModeTimes == ByModeTimes(allLegs)
        cumulative == Cumulate(SortByT(TimesAll(agents)))
        cumulativesByMode == [m \in DOMAIN byModeTimes |-> Cumulate(SortByT(byModeTimes[m]))]
    IN  IF threw
        THEN [threw |-> TRUE, agents |-> <<>>, cumulative |-> <<>>,
              cumulativesByMode |-> <<>>, modeTotals |-> <<>>,
              minT |-> 0, maxT |-> 0, total_emission_g |-> 0]
        ELSE [threw |-> FALSE,
              agents |-> agents,
              cumulative |-> cumulative,
              cumulativesByMode |-> cumulativesByMode,
              modeTotals |-> [m \in DOMAIN byModeTimes |->
                                cumulativesByMode[m][Len(cumulativesByMode[m])].emission_g_cum],
              minT |-> MinT(allLegs),
              maxT |-> MaxEndT(allLegs),
              total_emission_g |-> IF Len(cumulative) > 0
                                   THEN cumulative[Len(cumulative)].emission_g_cum
                                   ELSE 0]

\* The precomputed memo: None (null) for no scenario.
Precompute(scenario) ==
    IF scenario = None THEN None ELSE Some(PrecomputeScenario(scenario[1]))

-----------------------------------------------------------------------------
(* Emission queries *)

\* The first index whose point is at or after the query time.
FindIndexAtOrAfter(cum, time) ==
    LET later == {i \in 1..Len(cum) : cum[i].t >= time}
    IN  IF later = {} THEN 0 ELSE CHOOSE i \in later : \A j \in later : i <= j

\* cum.findIndex((p) => p.t > currentTime), 1-based, 0 for -1.
FindIndexAfter(cum, time) ==
    LET later == {i \in 1..Len(cum) : cum[i].t > time}
    IN  IF later = {} THEN 0 ELSE CHOOSE i \in later : \A j \in later : i <= j

\* The value both emission memos read off a curve.
EmissionAsOf(cum, time) ==
    IF Len(cum) = 0 THEN 0
    ELSE LET idx == FindIndexAfter(cum, time)
         IN  IF idx = 0 THEN cum[Len(cum)].emission_g_cum
             ELSE IF idx > 1 THEN cum[idx - 1].emission_g_cum
             ELSE 0

currentEmission(precomputed, time) ==
    IF precomputed = None THEN 0 ELSE EmissionAsOf(precomputed[1].cumulative, time)

\* currentEmissionByMode with a slip: a point at the query time itself is not
\* counted yet (p.t >= currentTime), unlike in currentEmission.
currentEmissionByModeBeforeOnly(precomputed, time) ==
    IF precomputed = None THEN <<>>
    ELSE [m \in DOMAIN precomputed[1].cumulativesByMode |->
            LET arr == precomputed[1].cumulativesByMode[m]
                idx == FindIndexAtOrAfter(arr, time)
            IN  IF Len(arr) = 0 THEN 0
                ELSE IF idx = 0 THEN arr[Len(arr)].emission_g_cum
                ELSE IF idx > 1 THEN arr[idx - 1].emission_g_cum
                ELSE 0]

\* A function from the modes that have a curve to numbers ({} is the empty function).
currentEmissionByMode(precomputed, time) ==
    IF precomputed = None THEN <<>>
    ELSE [m \in DOMAIN precomputed[1].cumulativesByMode |->
            EmissionAsOf(precomputed[1].cumulativesByMode[m], time)]

-----------------------------------------------------------------------------
(* Carbon-credit leaderboard *)

CARBON_WEIGHTS == [walk |-> 5, bike |-> 4, bus |-> 2, subway |-> 2, car_ev |-> 1, car_ice |-> 0]

\* String.prototype.toLowerCase on the mode names the model's inputs use.
toLowerCase(s) ==
    CASE s = "BUS" -> "bus"
      [] s = "Walk" -> "walk"
      [] OTHER -> s

\* The credit of a leg when a leg completing exactly at the query time is skipped.
LegCreditStrictlyPast(leg, a, currentTime) ==
    LET tEnd == LegEnd(leg)
        mRaw == Coalesce(leg.mode, a.mode)
        m == toLowerCase(IF mRaw = None THEN "" ELSE mRaw[1])
        km == leg.distance_km
        w == IF m \in DOMAIN CARBON_WEIGHTS THEN CARBON_WEIGHTS[m] ELSE 0
    IN  IF tEnd = None THEN 0
        ELSE IF currentTime <= tEnd[1] THEN 0
        ELSE IF km <= 0 THEN 0
        ELSE km * w

\* What one leg adds to the score in the inner loop of carbonLeaderboard.
LegCredit(leg, a, currentTime) ==
    LET tEnd == LegEnd(leg)
        mRaw == Coalesce(leg.mode, a.mode)
        m == toLowerCase(IF mRaw = None THEN "" ELSE mRaw[1])
        km == leg.distance_km
        w == IF m \in DOMAIN CARBON_WEIGHTS THEN CARBON_WEIGHTS[m] ELSE 0
    IN  IF tEnd = None THEN 0
        ELSE IF currentTime < tEnd[1] THEN 0
        ELSE IF km <= 0 THEN 0
        ELSE km * w

RECURSIVE AgentScore(_, _, _)
\* score after the first n legs of agent a.
AgentScore(a, currentTime, n) ==
    IF n = 0 THEN 0
    ELSE AgentScore(a, currentTime, n - 1) + LegCredit(a.legs[n], a, currentTime)

\* The row pushed for agent a: prev is prevScoresRef.current.
LeaderboardRow(a, currentTime, prev) ==
    LET score == AgentScore(a, currentTime, Len(a.legs))
        agentId == IF a.id # None THEN a.id[1] ELSE "Unknown"
        before == IF agentId \in DOMAIN prev THEN prev[agentId] ELSE 0
    IN  [agentId |-> agentId, score |-> score, delta |-> Max2(0, score - before)]

RECURSIVE InsertByScore(_, _)
\* An insertion that puts a row before the rows of equal score.
InsertBeforeEqual(sorted, r) ==
    IF Len(sorted) = 0 THEN <<r>>
    ELSE IF Head(sorted).score > r.score
    THEN <<Head(sorted)>> \o InsertByScore(Tail(sorted), r)
    ELSE <<r>> \o sorted

InsertByScore(sorted, r) ==
    IF Len(sorted) = 0 THEN <<r>>
    ELSE IF Head(sorted).score >= r.score
    THEN <<Head(sorted)>> \o InsertByScore(Tail(sorted), r)
    ELSE <<r>> \o sorted

RECURSIVE SortByScore(_)
\* rows.sort((x, y) => y.score - x.score): descending by score, stable.
SortByScore(rows) ==
    IF Len(rows) = 0 THEN <<>>
    ELSE InsertByScore(SortByScore(SubSeq(rows, 1, Len(rows) - 1)), rows[Len(rows)])

\* The carbonLeaderboard memo.
carbonLeaderboard(precomputed, currentTime, prev) ==
    IF precomputed = None THEN <<>>
    ELSE LET agents == precomputed[1].agents
         IN  SortByScore([i \in 1..Len(agents) |-> LeaderboardRow(agents[i], currentTime, prev)])

\* The effect after carbonLeaderboard: nextMap[row.agentId] = row.score, row by row.
NextPrevScores(rows) ==
    [id \in {rows[i].agentId : i \in 1..Len(rows)} |->
        LET last == CHOOSE i \in 1..Len(rows) :
                       /\ rows[i].agentId = id
                       /\ \A j \in 1..Len(rows) : rows[j].agentId = id => j <= i
        IN  rows[last].score]

-----------------------------------------------------------------------------
(* Reasoning log *)

\* Number.MAX_SAFE_INTEGER (2^53 - 1 in the code): here the largest integer
\* the checker holds, above every time of the inputs.
MAX_SAFE_INTEGER == 2147483647

\* The separator U+00B7 that metrics.join puts between the two metrics.
MIDDLE_DOT == "|"

IsSpace(c) == c = " "

RECURSIVE TrimStart(_)
TrimStart(cs) ==
    IF Len(cs) = 0 THEN cs
    ELSE IF IsSpace(Head(cs)) THEN TrimStart(Tail(cs))
    ELSE cs

RECURSIVE TrimEnd(_)
TrimEnd(cs) ==
    IF Len(cs) = 0 THEN cs
    ELSE IF IsSpace(cs[Len(cs)]) THEN TrimEnd(SubSeq(cs, 1, Len(cs) - 1))
    ELSE cs

\* String.prototype.trim
Trim(cs) == TrimEnd(TrimStart(cs))

RECURSIVE JoinWith(_, _)
\* Array.prototype.join(sep) of an array of strings.
JoinWith(parts, sep) ==
    IF Len(parts) = 0 THEN <<>>
    ELSE IF Len(parts) = 1 THEN parts[1]
    ELSE parts[1] \o sep \o JoinWith(Tail(parts), sep)

RECURSIVE Digits(_)
\* The decimal digits of n >= 0.
Digits(n) ==
    IF n < 10 THEN <<ToString(n)>>
    ELSE Digits(n \div 10) \o <<ToString(n % 10)>>

\* String(n) of a whole number.
NumberChars(n) == IF n < 0 THEN <<"-">> \o Digits(-n) ELSE Digits(n)

\* Math.round of n / d for n >= 0, d > 0 (halves go up).
RoundDiv(n, d) == (2 * n + d) \div (2 * d)

\* formatDistanceMeters: None is null.  toFixed(1) is exact here for whole
\* hundreds of metres.
formatDistanceMeters(distanceMeters) ==
    IF distanceMeters = None THEN None
    ELSE LET m == distanceMeters[1]
         IN  IF m < 1000 THEN Some(NumberChars(m) \o <<" ", "m">>)
             ELSE IF m >= 10000
             THEN Some(Digits(RoundDiv(m, 1000)) \o <<" ", "k", "m">>)
             ELSE LET tenths == RoundDiv(m, 100)
                  IN  Some(Digits(tenths \div 10) \o <<".">> \o Digits(tenths % 10)
                           \o <<" ", "k", "m">>)

\* formatDurationSeconds: None is null.
formatDurationSeconds(durationSeconds) ==
    IF durationSeconds = None THEN None
    ELSE LET d == durationSeconds[1]
         IN  IF d <= 0 THEN None
             ELSE IF d < 180 THEN Some(Digits(d) \o <<" ", "s">>)
             ELSE Some(Digits(RoundDiv(d, 60)) \o <<" ", "m", "i", "n">>)

\* String(n).padStart(2, '0')
Pad2(n) == IF n < 10 THEN "0" \o ToString(n) ELSE ToString(n)

formatClock(sec) ==
    LET s == Max2(0, sec)
    IN  Pad2(s \div 3600) \o ":" \o Pad2((s % 3600) \div 60)

\* The predicate of .find over the rationale candidates.
HasText(entry) ==
    IF entry.kind = "string" THEN Len(Trim(entry.chars)) > 0
    ELSE IF entry.kind = "array"
    THEN \E i \in 1..Len(entry.items) :
            entry.items[i] # None /\ Len(Trim(entry.items[i][1])) > 0
    ELSE IF entry.kind = "object" /\ entry.text # None THEN Len(Trim(entry.text[1])) > 0
    ELSE FALSE

\* reasonText before the metrics are appended.
ReasonText(leg, agent) ==
    LET candidates == <<leg.reasoning, agent.reasoning, agent.rationale>>
        found == {i \in 1..3 : HasText(candidates[i])}
    IN  IF found = {} THEN <<>>
        ELSE LET raw == candidates[CHOOSE i \in found : \A j \in found : i <= j]
             IN  IF raw.kind = "string" THEN Trim(raw.chars)
                 ELSE IF raw.kind = "array"
                 THEN LET chunks == SelectSeq(raw.items,
                                       LAMBDA c : IF c = None THEN FALSE
                                                  ELSE Len(Trim(c[1])) > 0)
                      IN  JoinWith([i \in 1..Len(chunks) |-> Trim(chunks[i][1])], <<" ">>)
                 ELSE Trim(raw.text[1])

\* The entry pushed for leg number moveIndex of agent, or None for a leg that
\* is skipped; n is logs.length at that moment.
LogEntry(leg, agent, moveIndex, n) ==
    LET start == Coalesce(Coalesce(leg.start_time, leg.startTime),
                          IF Len(leg.path) = 0 THEN None ELSE leg.path[1].t)
        modeRaw == Coalesce(Coalesce(leg.mode, agent.mode), Some("unknown"))[1]
        distanceText == formatDistanceMeters(
                            IF leg.distance_m # None THEN leg.distance_m
                            ELSE IF leg.distance_km # None THEN Some(leg.distance_km[1] * 1000)
                            ELSE None)
        durationText == formatDurationSeconds(Coalesce(leg.duration_s, leg.duration))
        metrics == SelectSeq(<<distanceText, durationText>>, LAMBDA x : x # None)
        text == ReasonText(leg, agent)
    IN  IF Len(text) = 0 THEN None
        ELSE Some([agentId |-> IF agent.id # None THEN agent.id[1]
                               ELSE "Agent-" \o ToString(n + 1),
                   mode |-> modeRaw,
                   reason |-> IF Len(metrics) > 0
                              THEN text \o <<" ", "(">>
                                   \o JoinWith([i \in 1..Len(metrics) |-> metrics[i][1]],
                                               <<" ", MIDDLE_DOT, " ">>)
                                   \o <<")">>
                              ELSE text,
                   timeLabel |-> IF start # None THEN formatClock(start[1]) ELSE "--:--",
                   timestamp |-> IF start # None THEN start[1] ELSE MAX_SAFE_INTEGER,
                   moveIndex |-> moveIndex])

RECURSIVE LogLegs(_, _, _, _)
\* The inner loop of buildReasoningLogsFromScenario from leg k of agent on.
LogLegs(legs, agent, k, logs) ==
    IF k > Len(legs) THEN logs
    ELSE LET e == LogEntry(legs[k], agent, k, Len(logs))
         IN  LogLegs(legs, agent, k + 1, IF e = None THEN logs ELSE Append(logs, e[1]))

RECURSIVE LogAgents(_, _, _)
\* The outer loop from agent i on.
LogAgents(agents, i, logs) ==
    IF i > Len(agents) THEN logs
    ELSE LogAgents(agents, i + 1,
                   LogLegs(extractLegs(agents[i]).legs,
                           IF agents[i] = None THEN NullAgent ELSE agents[i][1],
                           1, logs))

RECURSIVE InsertByTimestamp(_, _)
\* InsertByTimestamp with a slip: an entry goes before the entries of its own
\* timestamp (a sort that is not stable).
InsertBeforeEqualTimestamp(sorted, e) ==
    IF Len(sorted) = 0 THEN <<e>>
    ELSE IF Head(sorted).timestamp < e.timestamp
    THEN <<Head(sorted)>> \o InsertByTimestamp(Tail(sorted), e)
    ELSE <<e>> \o sorted

\* One step of the sort: e goes after the entries whose timestamp is not larger.
InsertByTimestamp(sorted, e) ==
    IF Len(sorted) = 0 THEN <<e>>
    ELSE IF Head(sorted).timestamp <= e.timestamp
    THEN <<Head(sorted)>> \o InsertByTimestamp(Tail(sorted), e)
    ELSE <<e>> \o sorted

RECURSIVE SortByTimestamp(_)
\* logs.sort((a, b) => a.timestamp - b.timestamp): ascending, stable.
SortByTimestamp(logs) ==
    IF Len(logs) = 0 THEN <<>>
    ELSE InsertByTimestamp(SortByTimestamp(SubSeq(logs, 1, Len(logs) - 1)), logs[Len(logs)])

\* buildReasoningLogsFromScenario(scenario): threw when extractLegs raises.
buildReasoningLogsFromScenario(scenario) ==
    IF scenario = None THEN [threw |-> FALSE, logs |-> <<>>]
    ELSE LET agents == IF scenario[1].agents # None THEN scenario[1].agents[1] ELSE <<>>
         IN  IF \E i \in 1..Len(agents) : extractLegs(agents[i]).threw
             THEN [threw |-> TRUE, logs |-> <<>>]
             ELSE [threw |-> FALSE, logs |-> SortByTimestamp(LogAgents(agents, 1, <<>>))]

-----------------------------------------------------------------------------
(* Input values *)

\* The largest time (s) of the inputs of the helper-function checks.
MaxT == 4

\* The most legs of an agent of the position check.
MaxLegs == 2

Times == 0..MaxT

\* A point in object form {lng, lat}.
Pt(lng, lat) ==
    Some([form |-> "object", lng |-> Some(lng), lon |-> None, longitude |-> None, x |-> None,
          lat |-> Some(lat), latitude |-> None, y |-> None,
          t |-> None, time |-> None, timestamp |-> None])

\* A point in object form {lng, lat, t}.
PtT(lng, lat, t) ==
    Some([form |-> "object", lng |-> Some(lng), lon |-> None, longitude |-> None, x |-> None,
          lat |-> Some(lat), latitude |-> None, y |-> None,
          t |-> Some(t), time |-> None, timestamp |-> None])

\* A rationale given as a string, as an array of strings, as an object {text}.
TextString(chars) == [kind |-> "string", chars |-> chars, items |-> <<>>, text |-> None]

TextArray(items) == [kind |-> "array", chars |-> <<>>, items |-> items, text |-> None]

TextObject(text) == [kind |-> "object", chars |-> <<>>, items |-> <<>>, text |-> text]

\* A raw leg {start_time, end_time, mode, path, distance_m}; every argument is optional.
RawLeg(start, end, mode, path, distance_m) ==
    [type |-> None, start_time |-> start, startTime |-> None,
     end_time |-> end, endTime |-> None, mode |-> mode,
     duration_s |-> None, duration |-> None,
     distance_m |-> distance_m, distance |-> None, distance_km |-> None,
     reasoning |-> NoText, rationale |-> NoText, path |-> path]

\* A raw agent {id, mode, legs}.
RawAgent(id, mode, legs) ==
    [id |-> id, mode |-> mode, legs |-> legs, timeline |-> None,
     reasoning |-> NoText, rationale |-> NoText]

\* All sequences of 0..n elements of S.
SeqsUpTo(S, n) == UNION {[1..k -> S] : k \in 0..n}

UntimedPath == <<Pt(0, 0), Pt(1, 1)>>

TimedPath == <<PtT(0, 0, 1), PtT(1, 0, 2), PtT(1, 1, 3)>>

\* prevScoresRef.current as useRef({}) leaves it.
NoScores == [id \in {} |-> 0]

-----------------------------------------------------------------------------
(* The App component: hook state, memos, effects and controls *)

DAY_SECONDS == 86400

\* The number of equal steps of a day at which the model puts the slider.
ClockSteps == 3

ClockStep == DAY_SECONDS \div ClockSteps

\* <input type="range" min={0} max={DAY_SECONDS} step={60}>: the values kept.
SliderValues == {k * ClockStep : k \in 0..ClockSteps}

\* dt * speed of one animation frame; dt >= 0 is whatever the browser measured.
TickAdvances == {0, ClockStep}

\* The <option> values of the speed select.
SpeedOptions == {1, 20, 50, 100, 200}

\* The enabled entries of SCENARIO_OPTIONS.
ScenarioNames == {"baseline", "congestion_pricing", "carbon_credits"}

AppLeg(start, end, mode) ==
    RawLeg(Some(start), Some(end), Some(mode), Some(UntimedPath), None)

\* A timeline file that is one scenario {meta, agents}: two agents with ids.
\* ref stands for the identity of the imported object.
NamedAgentsFile(ref) ==
    [ref |-> ref, days |-> None,
     meta |-> Some([days |-> Some(2), emission_factors_g_per_km |-> None]),
     agents |-> Some(<<Some(RawAgent(Some("a1"), Some("walk"),
                                     Some(<<Some(AppLeg(0, 8 * 3600, "walk"))>>))),
                       Some(RawAgent(Some("a2"), Some("bus"),
                                     Some(<<Some(AppLeg(8 * 3600, 16 * 3600, "bus"))>>)))>>)]

\* A timeline file {days: [...]} whose first day has two agents without an id.
AnonymousAgentsFile(ref) ==
    [ref |-> ref,
     days |-> Some(<<[ref |-> ref \o "/1", days |-> None, meta |-> None,
                      agents |-> Some(<<Some(RawAgent(None, Some("walk"),
                                           Some(<<Some(AppLeg(0, 8 * 3600, "walk"))>>))),
                                        Some(RawAgent(None, Some("bike"),
                                           Some(<<Some(AppLeg(8 * 3600, 16 * 3600, "bike"))>>)))>>)],
                     [ref |-> ref \o "/2", days |-> None, meta |-> None,
                      agents |-> Some(<<>>)]>>),
     meta |-> None, agents |-> None]

\* A timeline file whose agent "a1" rides a car and then walks, and says why.
CarThenWalkFile(ref) ==
    [ref |-> ref, days |-> None, meta |-> None,
     agents |-> Some(<<Some([RawAgent(Some("a1"), Some("car_ice"),
                                      Some(<<Some(AppLeg(0, 8 * 3600, "car_ice")),
                                             Some(AppLeg(8 * 3600, 24 * 3600, "walk"))>>))
                               EXCEPT !.reasoning = TextString(<<"g", "o">>)])>>)]

\* What the three imported timeline files can hold.
ImportedData ==
    {[baseline |-> NamedAgentsFile("baseline"),
      congestion_pricing |-> AnonymousAgentsFile("congestion"),
      carbon_credits |-> CarThenWalkFile("carboncredit")],
     [baseline |-> AnonymousAgentsFile("baseline"),
      congestion_pricing |-> NamedAgentsFile("congestion"),
      carbon_credits |-> NamedAgentsFile("carboncredit")]}

VARIABLES
    scenarioData,     \* SCENARIO_DATA: the imported timeline of each scenario name
    scenarioName,     \* useState('baseline')
    scenario,         \* useState(null)
    rawScenario,      \* useState(null)
    dayIndex,         \* useState(1)
    currentTime,      \* useState(8 * 3600)
    isPlaying,        \* useState(true)
    speed,            \* useState(50)
    prevScoresRef,    \* prevScoresRef.current
    rendered,         \* the hook state the last render saw (None before the first)
    memo,             \* the useMemo values of the last render
    pendingEffects,   \* the effects the last render scheduled and that have not run
    raf,              \* the speed the live requestAnimationFrame loop closed over
    crashed,          \* a render threw
    inEvent           \* a click or change is being handled: its render and effects are due

hooks == <<scenarioName, scenario, rawScenario, dayIndex, currentTime, isPlaying, speed>>

appVars ==
    <<scenarioData, hooks, prevScoresRef, rendered, memo, pendingEffects, raf, crashed,
      inEvent>>

vars == <<call, appVars>>

\* The hook state a render reads.
HookState ==
    [scenarioName |-> scenarioName, scenario |-> scenario, rawScenario |-> rawScenario,
     dayIndex |-> dayIndex, currentTime |-> currentTime,
     isPlaying |-> isPlaying, speed |-> speed]

\* The memo values before the first render.
NoMemo ==
    [precomputed |-> None, reasoningLogs |-> [threw |-> FALSE, logs |-> <<>>],
     carbonLeaderboard |-> <<>>, currentEmission |-> 0, currentEmissionByMode |-> <<>>,
     positions |-> <<>>, totalDays |-> 1]

\* The component as useState and useRef construct it, over the imported data.
AppConstructed(data) ==
    /\ scenarioData = data
    /\ scenarioName = "baseline"
    /\ scenario = None
    /\ rawScenario = None
    /\ dayIndex = 1
    /\ currentTime = 8 * 3600
    /\ isPlaying = TRUE
    /\ speed = 50
    /\ prevScoresRef = NoScores
    /\ rendered = None
    /\ memo = NoMemo
    /\ pendingEffects = {}
    /\ raf = None
    /\ crashed = FALSE
    /\ inEvent = FALSE

Init ==
    /\ call = [fn |-> "none"]
    /\ \E data \in ImportedData : AppConstructed(data)

\* The totalDays memo.
TotalDays(raw) ==
    IF raw = None THEN 1
    ELSE IF raw[1].days # None THEN Len(raw[1].days[1])
    ELSE IF raw[1].meta # None /\ raw[1].meta[1].days # None /\ raw[1].meta[1].days[1] > 0
    THEN raw[1].meta[1].days[1]
    ELSE 1

\* precomputed?.maxT
MaxTDep(pre) == IF pre = None THEN None ELSE Some(pre[1].maxT)

\* The layers memo: the position of every agent that has one.
Positions(pre, time) ==
    IF pre = None THEN <<>>
    ELSE [i \in 1..Len(pre[1].agents) |-> getAgentPosition(pre[1].agents[i], time)]

\* Render with a slip in a dependency list: the reasoning log is rebuilt when
\* the scenario name changes, [scenarioName], and not when the scenario does.
RenderLogsByName ==
    /\ ~crashed
    /\ pendingEffects = {}
    /\ rendered # Some(HookState)
    /\ LET first == rendered = None
           changed(dep) == first \/ rendered[1][dep] # HookState[dep]
           requery == changed("scenario") \/ changed("currentTime")
       IN  \E logs \in {IF changed("scenarioName")
                        THEN buildReasoningLogsFromScenario(scenario)
                        ELSE memo.reasoningLogs} :
           \E pre \in {IF changed("scenario") THEN Precompute(scenario)
                       ELSE memo.precomputed} :
              IF logs.threw \/ (pre # None /\ pre[1].threw)
              THEN /\ crashed' = TRUE
                   /\ UNCHANGED <<rendered, memo, pendingEffects, inEvent>>
              ELSE /\ crashed' = FALSE
                   /\ rendered' = Some(HookState)
                   /\ memo' = [precomputed |-> pre,
                               reasoningLogs |-> logs,
                               carbonLeaderboard |->
                                   IF requery
                                   THEN carbonLeaderboard(pre, currentTime, prevScoresRef)
                                   ELSE memo.carbonLeaderboard,
                               currentEmission |->
                                   IF requery THEN currentEmission(pre, currentTime)
                                   ELSE memo.currentEmission,
                               currentEmissionByMode |->
                                   IF requery THEN currentEmissionByMode(pre, currentTime)
                                   ELSE memo.currentEmissionByMode,
                               positions |->
                                   IF requery \/ changed("scenarioName")
                                   THEN Positions(pre, currentTime)
                                   ELSE memo.positions,
                               totalDays |->
                                   IF changed("rawScenario") THEN TotalDays(rawScenario)
                                   ELSE memo.totalDays]
                   /\ pendingEffects' =
                         {e \in {"load"} : changed("scenarioName")}
                         \cup {e \in {"timeReset"} : changed("scenario")}
                         \cup {e \in {"tick"} : \/ changed("isPlaying")
                                                \/ changed("speed")
                                                \/ MaxTDep(pre) # MaxTDep(memo.precomputed)}
                         \cup {e \in {"prevScores"} : requery}
                   /\ inEvent' = (inEvent /\ pendingEffects' # {})
    /\ UNCHANGED <<call, scenarioData, hooks, prevScoresRef, raf>>

\* Render with a slip in a dependency list: the layers memo leaves currentTime
\* out, so the positions of an earlier time are shown again.
RenderStaleLayers ==
    /\ ~crashed
    /\ pendingEffects = {}
    /\ rendered # Some(HookState)
    /\ LET first == rendered = None
           changed(dep) == first \/ rendered[1][dep] # HookState[dep]
           requery == changed("scenario") \/ changed("currentTime")
       IN  \E logs \in {IF changed("scenario")
                        THEN buildReasoningLogsFromScenario(scenario)
                        ELSE memo.reasoningLogs} :
           \E pre \in {IF changed("scenario") THEN Precompute(scenario)
                       ELSE memo.precomputed} :
              IF logs.threw \/ (pre # None /\ pre[1].threw)
              THEN /\ crashed' = TRUE
                   /\ UNCHANGED <<rendered, memo, pendingEffects, inEvent>>
              ELSE /\ crashed' = FALSE
                   /\ rendered' = Some(HookState)
                   /\ memo' = [precomputed |-> pre,
                               reasoningLogs |-> logs,
                               carbonLeaderboard |->
                                   IF requery
                                   THEN carbonLeaderboard(pre, currentTime, prevScoresRef)
                                   ELSE memo.carbonLeaderboard,
                               currentEmission |->
                                   IF requery THEN currentEmission(pre, currentTime)
                                   ELSE memo.currentEmission,
                               currentEmissionByMode |->
                                   IF requery THEN currentEmissionByMode(pre, currentTime)
                                   ELSE memo.currentEmissionByMode,
                               positions |->
                                   IF changed("scenario") \/ changed("scenarioName")
                                   THEN Positions(pre, currentTime)
                                   ELSE memo.positions,
                               totalDays |->
                                   IF changed("rawScenario") THEN TotalDays(rawScenario)
                                   ELSE memo.totalDays]
                   /\ pendingEffects' =
                         {e \in {"load"} : changed("scenarioName")}
                         \cup {e \in {"timeReset"} : changed("scenario")}
                         \cup {e \in {"tick"} : \/ changed("isPlaying")
                                                \/ changed("speed")
                                                \/ MaxTDep(pre) # MaxTDep(memo.precomputed)}
                         \cup {e \in {"prevScores"} : requery}
                   /\ inEvent' = (inEvent /\ pendingEffects' # {})
    /\ UNCHANGED <<call, scenarioData, hooks, prevScoresRef, raf>>

\* One render of App: every useMemo whose dependencies changed is recomputed
\* from the hook state, and every useEffect whose dependencies changed is
\* scheduled.  A render that throws takes the component down.  (Each memo is
\* bound by \E over a one-element set, so that it is one value for the rest
\* of the render.)
Render ==
    /\ ~crashed
    /\ pendingEffects = {}
    /\ rendered # Some(HookState)
    /\ LET first == rendered = None
           changed(dep) == first \/ rendered[1][dep] # HookState[dep]
           requery == changed("scenario") \/ changed("currentTime")
       IN  \E logs \in {IF changed("scenario")
                        THEN buildReasoningLogsFromScenario(scenario)
                        ELSE memo.reasoningLogs} :
           \E pre \in {IF changed("scenario") THEN Precompute(scenario)
                       ELSE memo.precomputed} :
              IF logs.threw \/ (pre # None /\ pre[1].threw)
              THEN /\ crashed' = TRUE
                   /\ UNCHANGED <<rendered, memo, pendingEffects, inEvent>>
              ELSE /\ crashed' = FALSE
                   /\ rendered' = Some(HookState)
                   /\ memo' = [precomputed |-> pre,
                               reasoningLogs |-> logs,
                               carbonLeaderboard |->
                                   IF requery
                                   THEN carbonLeaderboard(pre, currentTime, prevScoresRef)
                                   ELSE memo.carbonLeaderboard,
                               currentEmission |->
                                   IF requery THEN currentEmission(pre, currentTime)
                                   ELSE memo.currentEmission,
                               currentEmissionByMode |->
                                   IF requery THEN currentEmissionByMode(pre, currentTime)
                                   ELSE memo.currentEmissionByMode,
                               positions |->
                                   IF requery \/ changed("scenarioName")
                                   THEN Positions(pre, currentTime)
                                   ELSE memo.positions,
                               totalDays |->
                                   IF changed("rawScenario") THEN TotalDays(rawScenario)
                                   ELSE memo.totalDays]
                   /\ pendingEffects' =
                         {e \in {"load"} : changed("scenarioName")}
                         \cup {e \in {"timeReset"} : changed("scenario")}
                         \cup {e \in {"tick"} : \/ changed("isPlaying")
                                                \/ changed("speed")
                                                \/ MaxTDep(pre) # MaxTDep(memo.precomputed)}
                         \cup {e \in {"prevScores"} : requery}
                   /\ inEvent' = (inEvent /\ pendingEffects' # {})
    /\ UNCHANGED <<call, scenarioData, hooks, prevScoresRef, raf>>

\* array?.days ? days[0] : data
FirstDay(data) == IF data.days # None THEN Some(data.days[1][1]) ELSE Some(data)

\* FlushEffects with a slip: the tick effect lacks `if (!isPlaying) return`,
\* so the loop is started again after a pause.
FlushEffectsLoopWhilePaused ==
    /\ pendingEffects # {}
    /\ LET r == rendered[1]
           data == scenarioData[r.scenarioName]
           runs(e) == e \in pendingEffects
       IN  /\ rawScenario' = IF runs("load") THEN Some(data) ELSE rawScenario
           /\ scenario' = IF runs("load") THEN FirstDay(data) ELSE scenario
           /\ dayIndex' = IF runs("load") THEN 1 ELSE dayIndex
           /\ currentTime' = IF runs("timeReset") THEN 8 * 3600 ELSE currentTime
           /\ raf' = IF runs("tick")
                     THEN Some(r.speed)
                     ELSE raf
           /\ prevScoresRef' = IF runs("prevScores")
                               THEN NextPrevScores(memo.carbonLeaderboard)
                               ELSE prevScoresRef
    /\ pendingEffects' = {}
    /\ inEvent' = FALSE
    /\ UNCHANGED <<call, scenarioData, scenarioName, isPlaying, speed, rendered, memo, crashed>>

\* The passive effects of the last render, run in the order of their hooks:
\* the cleanup of the tick effect first, then load, time reset, tick and the
\* previous-score update.  Each closure reads the values of that render.
FlushEffects ==
    /\ pendingEffects # {}
    /\ LET r == rendered[1]
           data == scenarioData[r.scenarioName]
           runs(e) == e \in pendingEffects
       IN  /\ rawScenario' = IF runs("load") THEN Some(data) ELSE rawScenario
           /\ scenario' = IF runs("load") THEN FirstDay(data) ELSE scenario
           /\ dayIndex' = IF runs("load") THEN 1 ELSE dayIndex
           /\ currentTime' = IF runs("timeReset") THEN 8 * 3600 ELSE currentTime
           /\ raf' = IF runs("tick")
                     THEN (IF r.isPlaying THEN Some(r.speed) ELSE None)
                     ELSE raf
           /\ prevScoresRef' = IF runs("prevScores")
                               THEN NextPrevScores(memo.carbonLeaderboard)
                               ELSE prevScoresRef
    /\ pendingEffects' = {}
    /\ inEvent' = FALSE
    /\ UNCHANGED <<call, scenarioData, scenarioName, isPlaying, speed, rendered, memo, crashed>>

\* A click or a change is a discrete event: React re-renders and runs the
\* effects of that render before it returns to the browser, so a control is
\* operated on a component that shows its current hook state, and no
\* animation frame runs between the event and the effects of its render.
Interactive == ~crashed /\ rendered = Some(HookState) /\ pendingEffects = {}

\* The scenario select: onChange={(e) => setScenarioName(e.target.value)}
SelectScenario ==
    /\ Interactive
    /\ \E name \in ScenarioNames \ {rendered[1].scenarioName} : scenarioName' = name
    /\ inEvent' = TRUE
    /\ UNCHANGED <<call, scenarioData, scenario, rawScenario, dayIndex, currentTime,
                   isPlaying, speed, prevScoresRef, rendered, memo, pendingEffects,
                   raf, crashed>>

\* The day select: onChange={(e) => setDayIndex(Number(e.target.value))}
SelectDay ==
    /\ Interactive
    /\ \E d \in (1..memo.totalDays) \ {rendered[1].dayIndex} : dayIndex' = d
    /\ inEvent' = TRUE
    /\ UNCHANGED <<call, scenarioData, scenarioName, scenario, rawScenario, currentTime,
                   isPlaying, speed, prevScoresRef, rendered, memo, pendingEffects,
                   raf, crashed>>

\* The Play button, disabled while the rendered isPlaying is true.
Play ==
    /\ Interactive
    /\ ~rendered[1].isPlaying
    /\ isPlaying' = TRUE
    /\ inEvent' = TRUE
    /\ UNCHANGED <<call, scenarioData, scenarioName, scenario, rawScenario, dayIndex,
                   currentTime, speed, prevScoresRef, rendered, memo, pendingEffects,
                   raf, crashed>>

\* The Pause button, disabled while the rendered isPlaying is false.
Pause ==
    /\ Interactive
    /\ rendered[1].isPlaying
    /\ isPlaying' = FALSE
    /\ inEvent' = TRUE
    /\ UNCHANGED <<call, scenarioData, scenarioName, scenario, rawScenario, dayIndex,
                   currentTime, speed, prevScoresRef, rendered, memo, pendingEffects,
                   raf, crashed>>

\* The speed select: onChange={(e) => setSpeed(Number(e.target.value))}
SetSpeed ==
    /\ Interactive
    /\ \E v \in SpeedOptions \ {rendered[1].speed} : speed' = v
    /\ inEvent' = TRUE
    /\ UNCHANGED <<call, scenarioData, scenarioName, scenario, rawScenario, dayIndex,
                   currentTime, isPlaying, prevScoresRef, rendered, memo, pendingEffects,
                   raf, crashed>>

\* The time slider: onChange={(e) => setCurrentTime(Number(e.target.value))}
SliderMove ==
    /\ Interactive
    /\ \E v \in SliderValues \ {rendered[1].currentTime} : currentTime' = v
    /\ inEvent' = TRUE
    /\ UNCHANGED <<call, scenarioData, scenarioName, scenario, rawScenario, dayIndex,
                   isPlaying, speed, prevScoresRef, rendered, memo, pendingEffects,
                   raf, crashed>>

\* A frame that advances the time without the cap of Math.min.
TickUnclamped ==
    /\ ~crashed
    /\ raf # None
    /\ ~inEvent
    /\ \E advance \in TickAdvances : currentTime' = currentTime + advance
    /\ UNCHANGED <<call, scenarioData, scenarioName, scenario, rawScenario, dayIndex,
                   isPlaying, speed, prevScoresRef, rendered, memo, pendingEffects,
                   raf, crashed, inEvent>>

\* One animation frame of the tick loop:
\* setCurrentTime((t) => Math.min(t + dt * speed, DAY_SECONDS)), then the
\* loop requests its next frame.  A frame runs between events, on a loop
\* that no cleanup has cancelled.
Tick ==
    /\ ~crashed
    /\ raf # None
    /\ ~inEvent
    /\ \E advance \in TickAdvances :
          currentTime' = Min2(currentTime + advance, DAY_SECONDS)
    /\ UNCHANGED <<call, scenarioData, scenarioName, scenario, rawScenario, dayIndex,
                   isPlaying, speed, prevScoresRef, rendered, memo, pendingEffects,
                   raf, crashed, inEvent>>

Next ==
    \/ Render
    \/ FlushEffects
    \/ SelectScenario
    \/ SelectDay
    \/ Play
    \/ Pause
    \/ SetSpeed
    \/ SliderMove
    \/ Tick

Spec == Init /\ [][Next]_vars

-----------------------------------------------------------------------------
(* The position resolver on its own *)

\* A path whose own times start after the leg that carries it.
LatePath == <<PtT(0, 0, 2), PtT(1, 1, 3)>>

\* Legs of every start and end over a two-point path, a leg that takes its
\* times from its timed path, legs that outlast their timed path, a leg
\* without a path and a leg without times.
PositionLegs ==
    {RawLeg(Some(s), Some(e), None, Some(UntimedPath), None) : s \in Times, e \in Times}
    \cup {RawLeg(None, None, None, Some(TimedPath), None),
          RawLeg(Some(0), Some(MaxT), None, Some(TimedPath), None),
          RawLeg(Some(0), Some(MaxT), None, Some(LatePath), None),
          RawLeg(Some(0), Some(1), None, Some(<<>>), None),
          RawLeg(None, None, None, Some(UntimedPath), None)}

LegModes == <<"walk", "bus", "car_ice">>

\* The k-th leg of an agent gets a mode of its own, except the last mode-less
\* one, which falls back to the agent's mode.
PositionAgents ==
    {RawAgent(Some("a1"), Some("bike"),
              Some([k \in 1..Len(legs) |->
                      Some([legs[k] EXCEPT
                              !.mode = IF k <= Len(LegModes) THEN Some(LegModes[k])
                                       ELSE None])])) :
        legs \in SeqsUpTo(PositionLegs, MaxLegs)}

\* An agent of precomputed.agents, not yet queried.
InitPosition ==
    /\ AppConstructed(CHOOSE data \in ImportedData : TRUE)
    /\ call \in {[fn |-> "getAgentPosition",
               agent |-> PrecomputeAgent(Some(a), DEFAULT_EF),
               time |-> 0, done |-> FALSE, ret |-> None] :
                 a \in PositionAgents}

\* layers: const posInfo = getAgentPosition(agent, currentTime), at any currentTime.
CallGetAgentPosition ==
    /\ call.fn = "getAgentPosition"
    /\ ~call.done
    /\ \E t \in Times :
          call' = [call EXCEPT !.time = t, !.done = TRUE,
                               !.ret = getAgentPosition(call.agent, t)]
    /\ UNCHANGED appVars

SpecPosition == InitPosition /\ [][CallGetAgentPosition]_vars

-----------------------------------------------------------------------------
(* One scenario load and one query pass on their own *)

\* The most agents of a scenario.
MaxAgents == 2

LegWalk == RawLeg(Some(0), Some(1), Some("walk"), Some(UntimedPath), None)

LegBus == RawLeg(Some(1), Some(3), Some("BUS"), Some(UntimedPath), None)

\* An explicit distance and no path; the mode is the agent's.
LegExplicit ==
    [RawLeg(Some(2), Some(3), None, Some(<<>>), Some(2000)) EXCEPT
        !.reasoning = TextString(<<" ", "o", "k", " ">>)]

\* Times from the path alone; a mode no table knows.
LegTram == RawLeg(None, None, Some("tram"), Some(TimedPath), None)

\* No completion time: no end_time and no path.
LegNoEnd ==
    [RawLeg(Some(1), None, Some("walk"), Some(<<>>), Some(1000)) EXCEPT
        !.reasoning = TextObject(Some(<<"g", "o">>))]

LegNegative == RawLeg(Some(0), Some(2), Some("walk"), Some(UntimedPath), Some(-1000))

LegCar == RawLeg(Some(0), Some(2), Some("car_ice"), Some(UntimedPath), None)

LegLate ==
    [RawLeg(Some(3), Some(4), Some("bike"), Some(UntimedPath), Some(3000)) EXCEPT
        !.reasoning = TextArray(<<Some(<<"a">>), Some(<<" ", "b", " ">>)>>)]

\* A timeline entry {type, start_time, end_time, mode, duration_s, distance_m, path}.
RawEvent(type, start, end, mode, duration_s, distance_m, path) ==
    [RawLeg(start, end, mode, path, distance_m) EXCEPT
        !.type = type, !.duration_s = duration_s]

TimelineAgent ==
    [RawAgent(Some("a4"), Some("bus"), None) EXCEPT
        !.timeline =
            Some(<<Some(RawEvent(Some("stay"), Some(0), Some(1), None, Some(60), None, None)),
                   Some([RawEvent(Some("move"), Some(1), Some(2), None, Some(60), Some(4000),
                                  Some(UntimedPath)) EXCEPT
                            !.rationale = TextString(<<"x">>)]),
                   None>>)]

\* An agent with neither legs nor a timeline, but a rationale of its own.
EmptyAgent ==
    [RawAgent(Some("a5"), Some("walk"), None) EXCEPT !.reasoning = TextString(<<"h", "m">>)]

\* Neither times nor a path: a leg that starts at no known time.
LegNowhere == RawLeg(None, None, Some("walk"), Some(<<>>), None)

\* An agent whose rationale stands for each of its legs.
SpokenAgent ==
    [RawAgent(Some("a8"), Some("bus"), Some(<<Some(LegNowhere), Some(LegBus)>>)) EXCEPT
        !.rationale = TextString(<<"w", "e">>)]

\* The elements a scenario's agents array is made of (None is a null element).
ScenarioAgents ==
    {Some(RawAgent(Some("a1"), Some("bike"), Some(<<Some(LegWalk)>>))),
     Some(RawAgent(Some("a2"), Some("car_ev"), Some(<<Some(LegExplicit), Some(LegBus)>>))),
     Some(RawAgent(Some("a3"), None, Some(<<Some(LegTram), Some(LegNoEnd)>>))),
     Some(RawAgent(None, Some("walk"), Some(<<Some(LegNegative)>>))),
     Some(RawAgent(Some("a1"), Some("bus"), Some(<<Some(LegCar), Some(LegWalk)>>))),
     Some(TimelineAgent),
     Some(SpokenAgent),
     Some(EmptyAgent),
     Some(RawAgent(Some("a6"), Some("walk"), Some(<<>>))),
     None,
     Some(RawAgent(Some("a7"), None, Some(<<None>>))),
     Some(RawAgent(None, Some("Walk"), Some(<<Some(LegLate)>>)))}

\* scenario.meta: absent, a table of its own, a table with a negative factor.
ScenarioMetas ==
    {None,
     Some([emission_factors_g_per_km |->
             Some([walk |-> 1, bike |-> 2, bus |-> 30, car_ev |-> 100, car_ice |-> 200])]),
     Some([emission_factors_g_per_km |-> Some([walk |-> -1, car_ice |-> 200])])}

Scenarios ==
    {[meta |-> m, agents |-> Some(as)] :
        m \in ScenarioMetas, as \in SeqsUpTo(ScenarioAgents, MaxAgents)}

InitScenario ==
    /\ AppConstructed(CHOOSE data \in ImportedData : TRUE)
    /\ call \in {[fn |-> "scenario", scenario |-> Some(s), loaded |-> FALSE,
               logs |-> [threw |-> FALSE, logs |-> <<>>], pre |-> None,
               queried |-> FALSE, time |-> 0, positions |-> <<>>,
               emission |-> 0, byMode |-> <<>>, board |-> <<>>] : s \in Scenarios}

\* The render after setScenario: the reasoningLogs and precomputed memos.
LoadScenario ==
    /\ call.fn = "scenario"
    /\ ~call.loaded
    /\ call' = [call EXCEPT !.loaded = TRUE,
                            !.logs = buildReasoningLogsFromScenario(call.scenario),
                            !.pre = Precompute(call.scenario)]
    /\ UNCHANGED appVars

\* A render at any currentTime: the layers, currentEmission,
\* currentEmissionByMode and carbonLeaderboard memos.
QueryScenario ==
    /\ call.fn = "scenario"
    /\ call.loaded
    /\ ~call.pre[1].threw
    /\ ~call.queried
    /\ \E t \in Times :
          call' = [call EXCEPT
                     !.queried = TRUE,
                     !.time = t,
                     !.positions = [i \in 1..Len(call.pre[1].agents) |->
                                      getAgentPosition(call.pre[1].agents[i], t)],
                     !.emission = currentEmission(call.pre, t),
                     !.byMode = currentEmissionByMode(call.pre, t),
                     !.board = carbonLeaderboard(call.pre, t, NoScores)]
    /\ UNCHANGED appVars

NextScenario == LoadScenario \/ QueryScenario

SpecScenario == InitScenario /\ [][NextScenario]_vars

-----------------------------------------------------------------------------
(* Claims about the position resolver, under SpecPosition *)

\* The start and end getAgentPosition reads off a canonical leg with a path.
PosStart(leg) == Coalesce(Coalesce(leg.start_time, leg.startTime), leg.path[1].t)

PosEnd(leg) == Coalesce(Coalesce(leg.end_time, leg.endTime), leg.path[Len(leg.path)].t)

\* A leg the scan does not ignore: a path, and a start and an end that differ.
Remaining(leg) ==
    /\ Len(leg.path) > 0
    /\ PosStart(leg) # None
    /\ PosEnd(leg) # None
    /\ PosStart(leg) # PosEnd(leg)

\* A remaining leg not yet started at t, or under way at t.
NotStarted(leg, t) == Remaining(leg) /\ t <= PosStart(leg)[1]

UnderWay(leg, t) == Remaining(leg) /\ PosStart(leg)[1] < t /\ t < PosEnd(leg)[1]

\* An agent of two non-degenerate legs A then B queried strictly between them.
BetweenTwoLegs ==
    /\ call.fn = "getAgentPosition"
    /\ call.done
    /\ Len(call.agent.legs) = 2
    /\ Remaining(call.agent.legs[1])
    /\ Remaining(call.agent.legs[2])
    /\ PosStart(call.agent.legs[1])[1] < PosEnd(call.agent.legs[1])[1]
    /\ PosEnd(call.agent.legs[1])[1] < call.time
    /\ call.time < PosStart(call.agent.legs[2])[1]
    /\ PosStart(call.agent.legs[2])[1] < PosEnd(call.agent.legs[2])[1]

\* C1 as stated: queried strictly between leg A and leg B, getAgentPosition
\* returns the last path point of leg A.
C1_ReturnsEndOfCompletedLeg ==
    BetweenTwoLegs =>
        /\ call.ret # None
        /\ call.ret[1].position =
              Coord(call.agent.legs[1].path[Len(call.agent.legs[1].path)])

\* C1 amended: queried strictly between leg A and leg B, getAgentPosition
\* returns the first path point of leg B (the leg not yet started), with leg
\* B's mode, and not the last path point of leg A.
C1_ReturnsStartOfNextLeg ==
    BetweenTwoLegs =>
        /\ call.ret = Some([position |-> Coord(call.agent.legs[2].path[1]),
                            mode |-> call.agent.legs[2].mode])
        /\ call.ret[1].position #
              Coord(call.agent.legs[1].path[Len(call.agent.legs[1].path)])

C1_Witness ==
    /\ BetweenTwoLegs
    /\ call.time = 2
    /\ call.ret # None
    /\ call.ret[1].mode = Some("bus")

\* C2: getAgentPosition returns the result of the first leg, among those with
\* a path and a start that differs from its end, that is not yet started (its
\* first path point) or under way (the interpolated point); if there is none,
\* the last path point of the last such leg; if no leg remains, null.
C2_PositionPolicy ==
    (call.fn = "getAgentPosition" /\ call.done) =>
        LET legs == call.agent.legs
            t == call.time
            open == {i \in 1..Len(legs) : NotStarted(legs[i], t) \/ UnderWay(legs[i], t)}
            rest == {i \in 1..Len(legs) : Remaining(legs[i])}
        IN  IF open # {}
            THEN LET k == CHOOSE i \in open : \A j \in open : i <= j
                 IN  call.ret =
                        Some([position |-> IF NotStarted(legs[k], t)
                                           THEN Coord(legs[k].path[1])
                                           ELSE interpolateLngLat(legs[k].path, t)[1],
                              mode |-> legs[k].mode])
            ELSE IF rest # {}
            THEN LET k == CHOOSE i \in rest : \A j \in rest : i >= j
                 IN  /\ t >= PosEnd(legs[k])[1]
                     /\ call.ret = Some([position |-> Coord(legs[k].path[Len(legs[k].path)]),
                                         mode |-> legs[k].mode])
            ELSE call.ret = None

\* A later leg under way overrides the fallback of an earlier, completed leg.
C2_Witness ==
    /\ call.fn = "getAgentPosition"
    /\ call.done
    /\ Len(call.agent.legs) = 2
    /\ Remaining(call.agent.legs[1])
    /\ call.time >= PosEnd(call.agent.legs[1])[1]
    /\ call.time > PosStart(call.agent.legs[1])[1]
    /\ UnderWay(call.agent.legs[2], call.time)
    /\ call.ret # None
    /\ call.ret[1].mode = call.agent.legs[2].mode
    /\ call.ret[1].position # Coord(call.agent.legs[2].path[1])

-----------------------------------------------------------------------------
(* Claims about the precomputation and the queries, under SpecScenario *)

\* A scenario whose memos were built without an exception.
Loaded == call.fn = "scenario" /\ call.loaded /\ ~call.pre[1].threw

\* A scenario that was also queried at call.time.
Queried == call.fn = "scenario" /\ call.queried

\* The elements of the scenario's agents array, as given.
GivenAgents == call.scenario[1].agents[1]

\* Every canonical leg of the loaded scenario, agent by agent.
CanonLegs == FlattenLegs(call.pre[1].agents, 1)

RECURSIVE SumSeq(_)
SumSeq(xs) == IF Len(xs) = 0 THEN 0 ELSE Head(xs) + SumSeq(Tail(xs))

\* The number of indices of a sequence that satisfy P.
CountIn(xs, P(_)) == Cardinality({i \in 1..Len(xs) : P(xs[i])})

\* The leg has completed at time t.
DoneBy(leg, t) == LegEnd(leg) # None /\ LegEnd(leg)[1] <= t

\* The emission of the legs of a list that have completed at t.
EmissionDoneBy(legs, t) ==
    SumSeq([i \in 1..Len(legs) |-> IF DoneBy(legs[i], t) THEN legs[i].emission_g ELSE 0])

LegsOfMode(legs, m) == SelectSeq(legs, LAMBDA leg : KeyOf(leg.mode) = m)

\* The modes that own a per-mode curve: those of the legs with a completion time.
CurveModes(legs) ==
    {KeyOf(legs[i].mode) : i \in {j \in 1..Len(legs) : LegEnd(legs[j]) # None}}

\* C3: the emission reported as of t, globally and for each mode, is the sum
\* of the emission of exactly the legs whose completion time is <= t: a leg
\* completing at t counts, one completing later does not, the result is 0
\* when nothing has completed and the curve's last value when all has.
C3_InclusiveAsOf ==
    Queried =>
        LET legs == CanonLegs
            t == call.time
            cum == call.pre[1].cumulative
        IN  /\ call.emission = EmissionDoneBy(legs, t)
            /\ DOMAIN call.byMode = CurveModes(legs)
            /\ \A m \in DOMAIN call.byMode :
                  call.byMode[m] = EmissionDoneBy(LegsOfMode(legs, m), t)
            /\ (\A i \in 1..Len(cum) : cum[i].t > t) => call.emission = 0
            /\ (Len(cum) > 0 /\ \A i \in 1..Len(cum) : cum[i].t <= t)
                  => call.emission = cum[Len(cum)].emission_g_cum

\* C3: a query at the very completion time of an emitting leg, with another
\* emitting leg still to complete.
C3_Witness ==
    /\ Queried
    /\ call.emission > 0
    /\ \E i \in 1..Len(CanonLegs) :
          /\ LegEnd(CanonLegs[i]) = Some(call.time)
          /\ CanonLegs[i].emission_g > 0
    /\ \E i \in 1..Len(CanonLegs) :
          /\ LegEnd(CanonLegs[i]) # None
          /\ LegEnd(CanonLegs[i])[1] > call.time
          /\ CanonLegs[i].emission_g > 0

\* Every leg distance and every emission factor of the scenario is >= 0.
NonNegativeInputs ==
    /\ \A i \in 1..Len(CanonLegs) : CanonLegs[i].distance_km >= 0
    /\ LET ef == ScenarioEf(call.scenario[1])
       IN  \A k \in DOMAIN ef : ef[k] >= 0

\* The curve is sorted by time and its cumulative value never decreases.
CurveMonotone(cum) ==
    \A i \in 1..Len(cum) : \A j \in i..Len(cum) :
        /\ cum[i].t <= cum[j].t
        /\ cum[i].emission_g_cum <= cum[j].emission_g_cum

\* C4: with non-negative distances and factors, the global curve and every
\* per-mode curve are sorted by completion time with a non-decreasing
\* cumulative value, and the emission as of t1 is <= that as of t2 for t1 <= t2.
C4_MonotoneCurves ==
    (Loaded /\ NonNegativeInputs) =>
        /\ CurveMonotone(call.pre[1].cumulative)
        /\ \A m \in DOMAIN call.pre[1].cumulativesByMode :
              CurveMonotone(call.pre[1].cumulativesByMode[m])
        /\ \A t1 \in Times : \A t2 \in t1..MaxT :
              /\ currentEmission(call.pre, t1) <= currentEmission(call.pre, t2)
              /\ \A m \in DOMAIN call.pre[1].cumulativesByMode :
                    currentEmissionByMode(call.pre, t1)[m]
                       <= currentEmissionByMode(call.pre, t2)[m]

\* C4: a scenario of non-negative inputs whose legs complete out of order and
\* whose global curve rises.
C4_Witness ==
    /\ Loaded
    /\ NonNegativeInputs
    /\ \E i \in 1..Len(CanonLegs) : \E j \in (i + 1)..Len(CanonLegs) :
          /\ LegEnd(CanonLegs[i]) # None
          /\ LegEnd(CanonLegs[j]) # None
          /\ LegEnd(CanonLegs[i])[1] > LegEnd(CanonLegs[j])[1]
          /\ CanonLegs[i].emission_g > 0
          /\ CanonLegs[j].emission_g > 0
    /\ Len(call.pre[1].cumulative) >= 2

\* The mass the i-th point of a curve adds to it.
Increment(cum, i) ==
    cum[i].emission_g_cum - (IF i = 1 THEN 0 ELSE cum[i - 1].emission_g_cum)

\* The curve holds, for every (t, emission) pair, as many points as the list
\* has legs completing at t with that emission.
CurveMatchesLegs(cum, legs) ==
    /\ Len(cum) = CountIn(legs, LAMBDA leg : LegEnd(leg) # None)
    /\ \A i \in 1..Len(cum) :
          Cardinality({j \in 1..Len(cum) :
                          cum[j].t = cum[i].t /\ Increment(cum, j) = Increment(cum, i)})
             = CountIn(legs, LAMBDA leg : /\ LegEnd(leg) = Some(cum[i].t)
                                          /\ leg.emission_g = Increment(cum, i))

RECURSIVE SumTable(_, _)
\* The sum of the entries of a table under the given keys.
SumTable(table, keys) ==
    IF keys = {} THEN 0
    ELSE LET k == CHOOSE x \in keys : TRUE
         IN  table[k] + SumTable(table, keys \ {k})

\* C5: the per-mode totals add up to total_emission_g, and a leg contributes
\* its emission to the global curve exactly when it contributes the same
\* emission to the one per-mode curve of its mode.
C5_Conservation ==
    Loaded =>
        LET pre == call.pre[1]
        IN  /\ SumTable(pre.modeTotals, DOMAIN pre.modeTotals) = pre.total_emission_g
            /\ DOMAIN pre.modeTotals = CurveModes(CanonLegs)
            /\ DOMAIN pre.cumulativesByMode = CurveModes(CanonLegs)
            /\ CurveMatchesLegs(pre.cumulative, CanonLegs)
            /\ \A m \in DOMAIN pre.cumulativesByMode :
                  CurveMatchesLegs(pre.cumulativesByMode[m], LegsOfMode(CanonLegs, m))

\* C5: a scenario with two emitting modes, one of them with two emitting legs.
C5_Witness ==
    /\ Loaded
    /\ call.pre[1].total_emission_g > 0
    /\ \E m1 \in DOMAIN call.pre[1].modeTotals : \E m2 \in DOMAIN call.pre[1].modeTotals :
          /\ m1 # m2
          /\ call.pre[1].modeTotals[m1] > 0
          /\ call.pre[1].modeTotals[m2] > 0
          /\ Len(call.pre[1].cumulativesByMode[m1]) >= 2
          /\ Increment(call.pre[1].cumulativesByMode[m1], 1) > 0
          /\ Increment(call.pre[1].cumulativesByMode[m1], 2) > 0

\* The rows of the board are, counted with multiplicity, the rows expected.
SameRows(board, expected) ==
    /\ Len(board) = Len(expected)
    /\ \A k \in 1..Len(board) :
          CountIn(board, LAMBDA r : r = board[k]) = CountIn(expected, LAMBDA r : r = board[k])

IdOf(a) == IF a.id # None THEN a.id[1] ELSE "Unknown"

\* The weight of a mode looked up in the table as it is spelled.
WeightAsSpelled(mode) ==
    IF mode # None /\ mode[1] \in DOMAIN CARBON_WEIGHTS THEN CARBON_WEIGHTS[mode[1]] ELSE 0

\* The weight of a mode looked up in the table after lower-casing it.
WeightLowerCased(mode) ==
    IF mode # None /\ toLowerCase(mode[1]) \in DOMAIN CARBON_WEIGHTS
    THEN CARBON_WEIGHTS[toLowerCase(mode[1])]
    ELSE 0

\* C7 as stated: the score of every agent at t is the sum of distance_km *
\* weight(mode) over all of its legs completed at t, with the mode looked up
\* in the weight table as it is spelled.
C7_ScoreOverCompletedLegs ==
    Queried =>
        LET agents == call.pre[1].agents
            score(a) == SumSeq([k \in 1..Len(a.legs) |->
                           IF DoneBy(a.legs[k], call.time)
                           THEN a.legs[k].distance_km * WeightAsSpelled(a.legs[k].mode)
                           ELSE 0])
        IN  SameRows([k \in 1..Len(call.board) |->
                        [agentId |-> call.board[k].agentId, score |-> call.board[k].score]],
                     [i \in 1..Len(agents) |->
                        [agentId |-> IdOf(agents[i]), score |-> score(agents[i])]])

\* C7 amended: the score of every agent at t is the sum of distance_km *
\* weight(lower-cased mode) over its legs completed at t (a leg completing
\* exactly at t counts) whose distance_km is positive; legs with no
\* completion time or a distance <= 0 contribute nothing.
C7_ScoreOverPositiveLegs ==
    Queried =>
        LET agents == call.pre[1].agents
            score(a) == SumSeq([k \in 1..Len(a.legs) |->
                           IF DoneBy(a.legs[k], call.time) /\ a.legs[k].distance_km > 0
                           THEN a.legs[k].distance_km * WeightLowerCased(a.legs[k].mode)
                           ELSE 0])
        IN  SameRows([k \in 1..Len(call.board) |->
                        [agentId |-> call.board[k].agentId, score |-> call.board[k].score]],
                     [i \in 1..Len(agents) |->
                        [agentId |-> IdOf(agents[i]), score |-> score(agents[i])]])

\* C7: a query at the completion time of a leg whose mode is in the weight
\* table only once lower-cased, which therefore scores.
C7_Witness ==
    /\ Queried
    /\ \E i \in 1..Len(call.pre[1].agents) :
          LET a == call.pre[1].agents[i]
          IN  \E k \in 1..Len(a.legs) :
                 /\ LegEnd(a.legs[k]) = Some(call.time)
                 /\ a.legs[k].distance_km > 0
                 /\ WeightAsSpelled(a.legs[k].mode) = 0
                 /\ WeightLowerCased(a.legs[k].mode) > 0
                 /\ \E r \in 1..Len(call.board) :
                       call.board[r].agentId = IdOf(a) /\ call.board[r].score > 0

\* The orders in which n rows can list n agents.
RowOrders(n) == {p \in [1..n -> 1..n] : \A i \in 1..n : \A j \in 1..n : p[i] = p[j] => i = j}

\* C8: the leaderboard has exactly one row per agent of the scenario, in
\* descending order of score, rows of equal score in the agents' input order.
C8_LeaderboardOrder ==
    Queried =>
        LET agents == call.pre[1].agents
            n == Len(GivenAgents)
            row(i) == [agentId |-> IdOf(agents[i]),
                       score |-> AgentScore(agents[i], call.time, Len(agents[i].legs))]
        IN  /\ Len(call.board) = n
            /\ Len(agents) = n
            /\ \E p \in RowOrders(n) :
                  /\ \A k \in 1..n :
                        /\ call.board[k].agentId = row(p[k]).agentId
                        /\ call.board[k].score = row(p[k]).score
                  /\ \A k \in 1..n : \A l \in (k + 1)..n :
                        \/ call.board[k].score > call.board[l].score
                        \/ call.board[k].score = call.board[l].score /\ p[k] < p[l]

\* C8: a board on which a later agent outranks an earlier one and a board
\* with two agents of equal score.
C8_Witness ==
    /\ Queried
    /\ Len(call.board) = 2
    /\ call.board[1].agentId # call.board[2].agentId
    /\ \/ /\ call.board[1].score > call.board[2].score
          /\ call.board[1].agentId = IdOf(call.pre[1].agents[2])
       \/ /\ call.board[1].score = call.board[2].score
          /\ call.board[1].agentId = IdOf(call.pre[1].agents[1])

\* An element of agents that has neither a non-empty legs list nor a timeline.
IsEmptyAgent(agent) ==
    /\ agent # None
    /\ agent[1].legs = None \/ agent[1].legs = Some(<<>>)
    /\ agent[1].timeline = None

\* The scenario without the i-th element of its agents array.
WithoutAgent(i) ==
    Some([call.scenario[1] EXCEPT
            !.agents = Some([k \in 1..(Len(GivenAgents) - 1) |->
                               IF k < i THEN GivenAgents[k] ELSE GivenAgents[k + 1]])])

\* C9: an agent with neither a non-empty legs list nor a timeline has no
\* canonical leg, a null position at every t and a score of 0 at every t,
\* and the reasoning log and every curve are those of the scenario without it.
C9_EmptyAgentSafe ==
    \A i \in 1..(IF call.fn = "scenario" THEN Len(GivenAgents) ELSE 0) :
        IsEmptyAgent(GivenAgents[i]) =>
            /\ extractLegs(GivenAgents[i]) = [threw |-> FALSE, legs |-> <<>>]
            /\ \A t \in Times :
                  getAgentPosition(PrecomputeAgent(GivenAgents[i], DEFAULT_EF), t) = None
            /\ Loaded =>
                  /\ call.pre[1].agents[i].legs = <<>>
                  /\ call.logs = buildReasoningLogsFromScenario(WithoutAgent(i))
                  /\ call.pre[1].cumulative = Precompute(WithoutAgent(i))[1].cumulative
                  /\ call.pre[1].cumulativesByMode
                        = Precompute(WithoutAgent(i))[1].cumulativesByMode
                  /\ call.pre[1].total_emission_g
                        = Precompute(WithoutAgent(i))[1].total_emission_g
            /\ Queried =>
                  /\ call.positions[i] = None
                  /\ CountIn(call.board,
                             LAMBDA r : r.agentId = IdOf(GivenAgents[i][1]) /\ r.score = 0)
                        >= Cardinality({j \in 1..Len(GivenAgents) :
                                           /\ IsEmptyAgent(GivenAgents[j])
                                           /\ IdOf(GivenAgents[j][1]) = IdOf(GivenAgents[i][1])})

\* C9: a queried scenario with an agent that has a rationale of its own but
\* neither legs nor timeline, next to an agent that moves, emits and is logged.
C9_Witness ==
    /\ Queried
    /\ \E i \in 1..Len(GivenAgents) :
          /\ IsEmptyAgent(GivenAgents[i])
          /\ HasText(GivenAgents[i][1].reasoning)
    /\ Len(call.pre[1].cumulative) > 0
    /\ Len(call.logs.logs) > 0
    /\ \E j \in 1..Len(call.positions) : call.positions[j] # None

\* C10 as stated: loading any scenario completes without an exception, in
\* the precomputation and in the reasoning log alike.
C10_NeverFatal ==
    (call.fn = "scenario" /\ call.loaded) =>
        /\ ~call.pre[1].threw
        /\ ~call.logs.threw

-----------------------------------------------------------------------------
(* Claims about the running component, under Spec *)

\* The score of every agent of a precomputed scenario at a time, by agent.
ScoresAt(pre, time) ==
    [i \in 1..Len(pre[1].agents) |->
        AgentScore(pre[1].agents[i], time, Len(pre[1].agents[i].legs))]

\* This step evaluates the leaderboard again, over the scenario of the
\* preceding evaluation, at another time.
QueryAgain ==
    /\ rendered # None
    /\ rendered' # rendered
    /\ rendered'[1].scenario = rendered[1].scenario
    /\ rendered'[1].currentTime # rendered[1].currentTime
    /\ memo.precomputed # None

\* Every agent is reported with this score and with its gain over its own
\* score at the preceding query.
DeltasAreOwnGains ==
    LET agents == memo.precomputed[1].agents
        before == ScoresAt(memo.precomputed, rendered[1].currentTime)
        now == ScoresAt(memo.precomputed, rendered'[1].currentTime)
    IN  SameRows(memo'.carbonLeaderboard,
                 [i \in 1..Len(agents) |->
                    [agentId |-> IdOf(agents[i]),
                     score |-> now[i],
                     delta |-> Max2(0, now[i] - before[i])]])

\* C6 as stated: at every query after the first over a scenario, the delta
\* reported for each agent is max(0, score_now - score_prev), score_prev
\* being that same agent's score at the immediately preceding query.
C6_DeltaIsOwnGain == [][QueryAgain => DeltasAreOwnGains]_vars

\* The agents of the precomputed scenario have ids, all different.
DistinctIds ==
    LET agents == memo.precomputed[1].agents
    IN  \A i \in 1..Len(agents) :
           /\ agents[i].id # None
           /\ \A j \in 1..Len(agents) : agents[i].id = agents[j].id => i = j

\* C6 where it does hold: over agents that have ids of their own.
C6_DeltaIsOwnGainDistinctIds == [][(QueryAgain /\ DistinctIds) => DeltasAreOwnGains]_vars

\* The leaderboard rows without their deltas.
IdsAndScores(rows) ==
    [k \in 1..Len(rows) |-> [agentId |-> rows[k].agentId, score |-> rows[k].score]]

\* C11: after any sequence of scenario changes and time advances, every
\* render evaluates its queries over a canonical agent list, curves, totals
\* and a reasoning log that were all built from one scenario, the scenario
\* state of that render: the position, emission and score results it shows
\* are those of that scenario's artifacts at that render's time.
C11_AtomicRebuild ==
    [][rendered' # rendered =>
          LET pre == Precompute(scenario)
          IN  /\ rendered'[1].scenario = scenario
              /\ rendered'[1].currentTime = currentTime
              /\ memo'.precomputed = pre
              /\ memo'.reasoningLogs = buildReasoningLogsFromScenario(scenario)
              /\ memo'.currentEmission = currentEmission(pre, currentTime)
              /\ memo'.currentEmissionByMode = currentEmissionByMode(pre, currentTime)
              /\ memo'.positions = Positions(pre, currentTime)
              /\ IdsAndScores(memo'.carbonLeaderboard)
                    = IdsAndScores(carbonLeaderboard(pre, currentTime, NoScores))]_vars

\* C11: a render after a change of scenario and an advance of the time, over
\* a scenario that has agents, a rising curve and a reasoning log.
C11_Witness ==
    /\ rendered # None
    /\ rendered[1].scenarioName # "baseline"
    /\ rendered[1].scenario = FirstDay(scenarioData[rendered[1].scenarioName])
    /\ rendered[1].currentTime > 8 * 3600
    /\ memo.precomputed # None
    /\ Len(memo.precomputed[1].agents) > 0
    /\ Len(memo.reasoningLogs.logs) > 0
    /\ memo.currentEmission > 0

\* The dataset of day d of a timeline file that holds its days in an array.
DayDataset(raw, d) == Some(raw[1].days[1][d])

\* C12 as stated: once the component has settled on a selection of the day
\* selector, the scenario in use is the dataset of the selected day of the
\* loaded timeline file.
C12_ScenarioIsSelectedDay ==
    (Interactive /\ rawScenario # None /\ rawScenario[1].days # None) =>
        /\ dayIndex \in 1..Len(rawScenario[1].days[1])
        /\ scenario = DayDataset(rawScenario, dayIndex)

\* C13 as stated: the time every render passes to the position resolver, the
\* emission queries and the scorer is within [0, 86400): it never reaches 86400.
C13_TimeBelowDayEnd ==
    /\ 0 <= currentTime /\ currentTime < DAY_SECONDS
    /\ rendered # None =>
          0 <= rendered[1].currentTime /\ rendered[1].currentTime < DAY_SECONDS

\* C13 amended: under any sequence of ticks, pauses, slider moves and scenario
\* changes the query time is within [0, 86400], the end of the day included:
\* the tick caps it at DAY_SECONDS and the slider's maximum is DAY_SECONDS.
C13_TimeWithinDay ==
    /\ 0 <= currentTime /\ currentTime <= DAY_SECONDS
    /\ rendered # None =>
          0 <= rendered[1].currentTime /\ rendered[1].currentTime <= DAY_SECONDS

\* C13: the queries evaluated at 86400 while the tick loop is still running.
C13_Witness ==
    /\ rendered # None
    /\ rendered[1].currentTime = DAY_SECONDS
    /\ rendered[1].isPlaying
    /\ raf # None
    /\ memo.precomputed # None

\* This step is a render over the scenario of the preceding render.
SameScenarioRender ==
    /\ rendered # None
    /\ rendered' # rendered
    /\ rendered'[1].scenario = rendered[1].scenario

\* This step is a render that differs from the preceding one in the time alone.
TimeOnlyRender ==
    /\ SameScenarioRender
    /\ rendered'[1].currentTime # rendered[1].currentTime
    /\ \A dep \in DOMAIN rendered[1] \ {"currentTime"} : rendered'[1][dep] = rendered[1][dep]

\* This step runs the effects of a render that scheduled the previous-score
\* update and nothing else.
ScoreBookkeeping == pendingEffects = {"prevScores"} /\ pendingEffects' = {}

\* C14: a render with the scenario unchanged keeps the canonical agents (with
\* their legs' distance_km and emission_g), both kinds of curve, the totals
\* and the reasoning log as they were built, and evaluates positions and
\* emissions as functions of those and of the time alone; a change of the
\* time alone changes no hook state and schedules only the previous-score
\* update, which modifies the previous-score map and nothing else.
C14_QueryFrame ==
    [][/\ SameScenarioRender =>
             /\ memo'.precomputed = memo.precomputed
             /\ memo'.reasoningLogs = memo.reasoningLogs
             /\ memo'.positions = Positions(memo.precomputed, rendered'[1].currentTime)
             /\ memo'.currentEmission
                   = currentEmission(memo.precomputed, rendered'[1].currentTime)
             /\ memo'.currentEmissionByMode
                   = currentEmissionByMode(memo.precomputed, rendered'[1].currentTime)
             /\ UNCHANGED <<scenarioData, hooks, prevScoresRef, raf>>
       /\ TimeOnlyRender => pendingEffects' = {"prevScores"}
       /\ ScoreBookkeeping =>
             /\ prevScoresRef' = NextPrevScores(memo.carbonLeaderboard)
             /\ UNCHANGED <<scenarioData, hooks, rendered, memo, raf, crashed>>]_vars

\* C14: a query at a later time over a built scenario, with positions and
\* emission that differ from those of the preceding query, after which the
\* previous-score map holds a score.
C14_Witness ==
    /\ Interactive
    /\ memo.precomputed # None
    /\ Len(memo.precomputed[1].cumulative) > 0
    /\ rendered[1].currentTime > 8 * 3600
    /\ memo.currentEmission > 0
    /\ memo.positions # Positions(memo.precomputed, 8 * 3600)
    /\ \E id \in DOMAIN prevScoresRef : prevScoresRef[id] > 0

-----------------------------------------------------------------------------
(* The leg extractor and the per-agent precomputation on their own *)

\* A point in tuple form [lng, lat, t]; a missing element is None.
Tuple(lng, lat, t) ==
    Some([form |-> "tuple", lng |-> lng, lon |-> None, longitude |-> None, x |-> None,
          lat |-> lat, latitude |-> None, y |-> None,
          t |-> t, time |-> None, timestamp |-> None])

\* Three points without times, over [0, 4]: times 0, 2, 4 are synthesised.
LegThreePoints ==
    RawLeg(Some(0), Some(4), Some("walk"), Some(<<Pt(0, 0), Pt(1, 0), Pt(1, 1)>>), None)

\* One point without a time, over [0, 2].
LegOnePoint == RawLeg(Some(0), Some(2), None, Some(<<Pt(0, 0)>>), None)

\* Points that carry times 1, 2, 3 in a leg that says [0, 4].
LegOwnTimes == RawLeg(Some(0), Some(4), Some("tram"), Some(TimedPath), None)

\* Points that carry times out of order, in a leg without times of its own.
LegBackwards == RawLeg(None, None, None, Some(<<PtT(0, 0, 3), PtT(1, 1, 1)>>), None)

\* An end that is not after the start.
LegEndsEarly == RawLeg(Some(2), Some(1), None, Some(UntimedPath), None)

\* Neither times nor timed points.
LegUntimed == RawLeg(None, None, Some("walk"), Some(UntimedPath), None)

\* An explicit distance_m next to a path of another length.
LegMeasured == RawLeg(Some(0), Some(2), Some("bus"), Some(UntimedPath), Some(5000))

\* A distance under the key `distance`, which only a timeline entry may use.
LegDistanceAlias ==
    [RawLeg(Some(0), Some(2), Some("bus"), Some(<<Tuple(Some(0), Some(0), None),
                                                   Tuple(Some(0), Some(1), None)>>), None)
        EXCEPT !.distance = Some(3000)]

\* No path property at all.
LegNoPath == RawLeg(Some(0), Some(2), Some("car_ice"), None, None)

\* The first point carries a time, the last does not: start is that time.
LegHalfTimed == RawLeg(None, None, None, Some(<<PtT(0, 0, 1), Pt(1, 1)>>), None)

\* startTime and endTime instead of start_time and end_time.
LegCamelCase ==
    [RawLeg(None, None, Some("bike"), Some(UntimedPath), None) EXCEPT
        !.startTime = Some(0), !.endTime = Some(2)]

\* A point with a time later than the leg's end, and a point without a time.
LegLateStamp == RawLeg(Some(0), Some(2), None, Some(<<PtT(0, 0, 3), Pt(1, 1)>>), None)

ExtractLegs ==
    {LegThreePoints, LegOnePoint, LegOwnTimes, LegBackwards, LegEndsEarly, LegUntimed,
     LegMeasured, LegDistanceAlias, LegNoPath, LegHalfTimed, LegCamelCase, LegLateStamp}

\* A timeline: a stay, a movement that uses the aliases startTime, endTime,
\* duration and distance, a null entry, a movement with nothing but its type
\* and an untimed one-point path, an entry without a type.
ExtractTimeline ==
    <<Some(RawEvent(Some("stay"), Some(0), Some(1), Some("walk"), Some(60), Some(9000), None)),
      Some([RawEvent(Some("move"), None, None, Some("walk"), None, None, Some(UntimedPath))
               EXCEPT !.startTime = Some(1), !.endTime = Some(3),
                      !.duration = Some(120), !.distance = Some(3000),
                      !.rationale = TextString(<<"x">>)]),
      None,
      Some(RawEvent(Some("move"), None, None, None, None, None, Some(<<Pt(1, 1)>>))),
      Some(RawEvent(None, Some(2), Some(4), Some("bus"), None, Some(1000), Some(UntimedPath)))>>

\* A timeline of one movement that has a path and no distance.
WalkTimeline ==
    <<Some(RawEvent(Some("move"), Some(0), Some(2), Some("tram"), Some(120), None,
                    Some(<<Pt(0, 0), Pt(1, 0), Pt(1, 1)>>)))>>

ExtractTimelines == {None, Some(<<>>), Some(ExtractTimeline), Some(WalkTimeline)}

\* The agent's mode: absent, in the factor tables, in none.
ExtractModes == {None, Some("bus"), Some("hover")}

\* legs is absent, or an array of up to MaxLegs raw legs.
ExtractAgents ==
    {[RawAgent(Some("a1"), mode, legs) EXCEPT !.timeline = timeline] :
        mode \in ExtractModes,
        legs \in {None} \cup {Some([k \in 1..Len(ls) |-> Some(ls[k])]) :
                                 ls \in SeqsUpTo(ExtractLegs, MaxLegs)},
        timeline \in ExtractTimelines}

\* The factor table: the default one, one of the scenario's own.
ExtractEfs == {DEFAULT_EF, [walk |-> 1, bus |-> 30, tram |-> 0]}

InitExtract ==
    /\ AppConstructed(CHOOSE data \in ImportedData : TRUE)
    /\ call \in {[fn |-> "precomputeAgent", agent |-> Some(a), ef |-> ef, done |-> FALSE,
               ret |-> [threw |-> FALSE, legs |-> <<>>], canon |-> <<>>] :
                 a \in ExtractAgents, ef \in ExtractEfs}

\* The callback of agentsSource.map in precomputed: extractLegs(a), then the
\* mode, distance and emission of every leg.
PrecomputeOneAgent ==
    /\ call.fn = "precomputeAgent"
    /\ ~call.done
    /\ \E extracted \in {extractLegs(call.agent)} :
          call' = [call EXCEPT
                     !.done = TRUE,
                     !.ret = extracted,
                     !.canon = IF extracted.threw THEN <<>>
                               ELSE PrecomputeAgent(call.agent, call.ef).legs]
    /\ UNCHANGED appVars

SpecExtract == InitExtract /\ [][PrecomputeOneAgent]_vars

-----------------------------------------------------------------------------
(* Claims about the leg extractor and the per-agent precomputation, under SpecExtract *)

\* The agent was given to extractLegs and its legs were precomputed.
Extracted == call.fn = "precomputeAgent" /\ call.done /\ ~call.ret.threw

\* The agent's legs property is a non-empty array.
HasLegs(a) == a.legs # None /\ Len(a.legs[1]) > 0

\* The entries of the agent's timeline that are tagged as movement.
MoveEntries(a) ==
    IF a.timeline = None THEN <<>>
    ELSE SelectSeq(a.timeline[1],
                   LAMBDA e : IF e = None THEN FALSE
                              ELSE IF e[1].type = None THEN FALSE
                              ELSE e[1].type[1] = "move")

\* The raw legs, or else the movement entries, of the agent, in input order.
SourceLegs(a) ==
    IF HasLegs(a) THEN [i \in 1..Len(a.legs[1]) |-> a.legs[1][i][1]]
    ELSE [i \in 1..Len(MoveEntries(a)) |-> MoveEntries(a)[i][1]]

\* The value under the first of the given keys that the record has.
FirstOf(rec, keys) ==
    LET has == {i \in 1..Len(keys) : rec[keys[i]] # None}
    IN  IF has = {} THEN None ELSE rec[keys[CHOOSE i \in has : \A j \in has : i <= j]]

\* The start and the end of a source leg as the extractor takes them: from
\* the leg's keys, else from the first and last raw point (a raw leg) or 0 (a
\* movement entry).
GivenStart(a, raw) ==
    IF FirstOf(raw, <<"start_time", "startTime">>) # None
    THEN FirstOf(raw, <<"start_time", "startTime">>)
    ELSE IF HasLegs(a) THEN RawPointT(raw.path, 1) ELSE Some(0)

GivenEnd(a, raw) ==
    IF FirstOf(raw, <<"end_time", "endTime">>) # None
    THEN FirstOf(raw, <<"end_time", "endTime">>)
    ELSE IF HasLegs(a)
    THEN (IF raw.path = None THEN None ELSE RawPointT(raw.path, Len(raw.path[1])))
    ELSE Some(0)

\* The points of the source leg's path that survive the filter.
Surviving(raw) == IF raw.path = None THEN <<>> ELSE CleanedPoints(raw.path[1])

\* At least one surviving point carries no time, so times are synthesised.
Synthesised(raw) == \E k \in 1..Len(Surviving(raw)) : Surviving(raw)[k].t = None

\* Every point has a time and the times never decrease.
TimesAscend(path) ==
    /\ \A k \in 1..Len(path) : path[k].t # None
    /\ \A k \in 1..(Len(path) - 1) : path[k].t[1] <= path[k + 1].t[1]

\* C15 as stated: in every leg extractLegs returns with a non-empty path, the
\* path's t values are non-decreasing, the first point's t is the leg's start
\* time and the last point's t is the leg's end time, single-point paths and
\* paths whose input points carried times included.
C15_PathSpansLeg ==
    Extracted =>
        \A i \in 1..Len(call.ret.legs) :
            LET raw == SourceLegs(call.agent[1])[i]
                path == call.ret.legs[i].path
                start == GivenStart(call.agent[1], raw)
                end == GivenEnd(call.agent[1], raw)
            IN  Len(path) > 0 =>
                   /\ TimesAscend(path)
                   /\ start # None => path[1].t = start
                   /\ end # None => path[Len(path)].t = end

\* C15 amended: in every leg extractLegs returns with a non-empty path whose
\* times were synthesised (a surviving input point carried none), the t
\* values are non-decreasing and the first point's t is the leg's start time
\* (0 when it has none); the last point's t is the leg's end time when the
\* path has two or more points and the end is after the start, and is the
\* first point's t otherwise.  A path whose points all carried times is
\* returned with exactly those times, in input order.
C15_SynthesisedPathSpansLeg ==
    Extracted =>
        \A i \in 1..Len(call.ret.legs) :
            LET raw == SourceLegs(call.agent[1])[i]
                path == call.ret.legs[i].path
                n == Len(path)
                start == GivenStart(call.agent[1], raw)
                end == GivenEnd(call.agent[1], raw)
                spans == n >= 2 /\ start # None /\ end # None /\ start[1] < end[1]
            IN  n > 0 =>
                   IF Synthesised(raw)
                   THEN /\ TimesAscend(path)
                        /\ path[1].t = Coalesce(start, Some(0))
                        /\ path[n].t = IF spans THEN end ELSE path[1].t
                   ELSE /\ n = Len(Surviving(raw))
                        /\ \A k \in 1..n : path[k].t = Surviving(raw)[k].t

\* C15: an agent with a leg of three untimed points spread over its start and
\* end, and a leg whose single untimed point gets the start and not the end.
C15_Witness ==
    /\ Extracted
    /\ Len(call.ret.legs) = 2
    /\ Len(call.ret.legs[1].path) = 3
    /\ Synthesised(SourceLegs(call.agent[1])[1])
    /\ call.ret.legs[1].path[1].t = Some(0)
    /\ call.ret.legs[1].path[2].t = Some(2)
    /\ call.ret.legs[1].path[3].t = Some(4)
    /\ Len(call.ret.legs[2].path) = 1
    /\ call.ret.legs[2].path[1].t = Some(0)
    /\ GivenEnd(call.agent[1], SourceLegs(call.agent[1])[2]) = Some(2)

-----------------------------------------------------------------------------
(* The path normaliser on its own *)

\* The most points of a path given to the normaliser.
MaxPoints == 3

RECURSIVE Factorial(_)
Factorial(n) == IF n <= 1 THEN 1 ELSE n * Factorial(n - 1)

\* The start and end times given to the normaliser are multiples of this, so
\* that every synthesised time is a whole number of seconds.
StepUnit == Factorial(MaxPoints - 1)

\* A path element that is neither null, nor an array, nor an object.
Scalar ==
    Some([form |-> "other", lng |-> None, lon |-> None, longitude |-> None, x |-> None,
          lat |-> None, latitude |-> None, y |-> None,
          t |-> None, time |-> None, timestamp |-> None])

\* An object {lon, latitude, time}.
PtAliased(lon, latitude, time) ==
    Some([form |-> "object", lng |-> None, lon |-> Some(lon), longitude |-> None, x |-> None,
          lat |-> None, latitude |-> Some(latitude), y |-> None,
          t |-> None, time |-> time, timestamp |-> None])

\* An object {x}: a longitude and no latitude.
PtNoLat ==
    Some([form |-> "object", lng |-> None, lon |-> None, longitude |-> None, x |-> Some(1),
          lat |-> None, latitude |-> None, y |-> None,
          t |-> None, time |-> None, timestamp |-> Some(1)])

\* The elements a path is made of: null, a scalar, tuples with and without a
\* time, a tuple without a longitude, objects under the canonical and the
\* aliased keys, with and without a time, an object without a latitude.
RawPoints ==
    {None, Scalar,
     Tuple(Some(0), Some(0), None), Tuple(Some(1), Some(0), Some(3)),
     Tuple(None, Some(1), None),
     Pt(0, 1), PtAliased(1, 1, Some(1)), PtNoLat}

NormalizePaths == {None} \cup {Some(ps) : ps \in SeqsUpTo(RawPoints, MaxPoints)}

InitNormalize ==
    /\ AppConstructed(CHOOSE data \in ImportedData : TRUE)
    /\ call \in {[fn |-> "normalizePathWithTime", path |-> path,
               startTime |-> startTime, endTime |-> endTime,
               done |-> FALSE, ret |-> <<>>] :
                 path \in NormalizePaths,
                 startTime \in {None, Some(0), Some(StepUnit)},
                 endTime \in {None, Some(0), Some(2 * StepUnit)}}

\* extractLegs: normalizePathWithTime(leg.path ?? [], start, end)
CallNormalizePathWithTime ==
    /\ call.fn = "normalizePathWithTime"
    /\ ~call.done
    /\ call' = [call EXCEPT
                  !.done = TRUE,
                  !.ret = normalizePathWithTime(call.path, call.startTime, call.endTime)]
    /\ UNCHANGED appVars

SpecNormalize == InitNormalize /\ [][CallNormalizePathWithTime]_vars

-----------------------------------------------------------------------------
(* Claims about the path normaliser, under SpecNormalize *)

Normalized == call.fn = "normalizePathWithTime" /\ call.done

\* The longitude and the latitude an input point resolves to, by its form.
ResolvedLng(point) ==
    IF point = None THEN None
    ELSE IF point[1].form = "tuple" THEN point[1].lng
    ELSE IF point[1].form = "object"
    THEN FirstOf(point[1], <<"lng", "lon", "longitude", "x">>)
    ELSE None

ResolvedLat(point) ==
    IF point = None THEN None
    ELSE IF point[1].form = "tuple" THEN point[1].lat
    ELSE IF point[1].form = "object" THEN FirstOf(point[1], <<"lat", "latitude", "y">>)
    ELSE None

\* The input points that have both a longitude and a latitude, in input order.
Located(path) ==
    IF path = None THEN <<>>
    ELSE SelectSeq(path[1], LAMBDA p : ResolvedLng(p) # None /\ ResolvedLat(p) # None)

\* C16 as stated: every point normalizePathWithTime returns has a numeric lng
\* and a numeric lat; the output holds exactly the input points, of tuple or
\* of object form, that resolve to a longitude and a latitude, in their input
\* order, and is empty for an input that is no array or has no such point.
C16_OnlyLocatedPoints ==
    Normalized =>
        /\ \A k \in 1..Len(call.ret) : call.ret[k].lng # None /\ call.ret[k].lat # None
        /\ Len(call.ret) = Len(Located(call.path))
        /\ \A k \in 1..Len(call.ret) :
              /\ call.ret[k].lng = ResolvedLng(Located(call.path)[k])
              /\ call.ret[k].lat = ResolvedLat(Located(call.path)[k])
        /\ call.path = None => call.ret = <<>>

\* The points that survive the filter of the normaliser's input.
Survivors == IF call.path = None THEN <<>> ELSE CleanedPoints(call.path[1])

\* The start and end times given span an interval: both numbers, end after start.
SpanGiven ==
    /\ call.startTime # None
    /\ call.endTime # None
    /\ call.startTime[1] < call.endTime[1]

\* C17: the output has the surviving points in input order.  When one of
\* them lacks a time, every point is given one: startTime (0 when it is no
\* number) if startTime or endTime is no number or endTime <= startTime, and
\* otherwise, for the point at ordinal i of n, startTime + (endTime -
\* startTime) * i / (n - 1) (startTime for a single point), so that the times
\* are evenly spaced and non-decreasing.  When every surviving point has a
\* time, the points are returned as they are.
C17_TimeSynthesis ==
    Normalized =>
        LET pts == Survivors
            n == Len(pts)
            out == call.ret
        IN  /\ Len(out) = n
            /\ \A k \in 1..n : out[k].lng = pts[k].lng /\ out[k].lat = pts[k].lat
            /\ IF \A k \in 1..n : pts[k].t # None
               THEN out = pts
               ELSE IF ~SpanGiven
               THEN \A k \in 1..n : out[k].t = Coalesce(call.startTime, Some(0))
               ELSE /\ \A k \in 1..n : out[k].t # None
                    /\ n = 1 => out[1].t = call.startTime
                    /\ \A k \in 1..n :
                          n >= 2 =>
                             (out[k].t[1] - call.startTime[1]) * (n - 1)
                                = (call.endTime[1] - call.startTime[1]) * (k - 1)
                    /\ \A k \in 1..(n - 1) : out[k].t[1] <= out[k + 1].t[1]
                    /\ \A k \in 1..(n - 2) :
                          out[k + 1].t[1] - out[k].t[1] = out[k + 2].t[1] - out[k + 1].t[1]

\* C17: three surviving points, of which one carried a time of its own that
\* the synthesis replaced, spread evenly over the interval given.
C17_Witness ==
    /\ Normalized
    /\ SpanGiven
    /\ Len(call.ret) = 3
    /\ \E k \in 1..3 : Survivors[k].t = None
    /\ \E k \in 1..3 : Survivors[k].t # None /\ Survivors[k].t # call.ret[k].t
    /\ call.ret[1].t = call.startTime
    /\ call.ret[3].t = call.endTime
    /\ call.ret[1].t[1] < call.ret[2].t[1]
    /\ call.ret[2].t[1] < call.ret[3].t[1]

\* The canonical leg is the raw leg with its mode defaulted and its path normalised.
FromRawLeg(out, raw, a) ==
    /\ out.mode = Coalesce(raw.mode, a.mode)
    /\ \A key \in DOMAIN raw \ {"mode", "path"} : out[key] = raw[key]
    /\ Len(out.path) = Len(Surviving(raw))
    /\ \A k \in 1..Len(out.path) :
          out.path[k].lng = Surviving(raw)[k].lng /\ out.path[k].lat = Surviving(raw)[k].lat

\* The canonical leg is the movement entry mapped into the leg shape.
FromMoveEntry(out, move, a) ==
    /\ out.mode = Coalesce(move.mode, a.mode)
    /\ out.start_time = Coalesce(FirstOf(move, <<"start_time", "startTime">>), Some(0))
    /\ out.end_time = Coalesce(FirstOf(move, <<"end_time", "endTime">>), Some(0))
    /\ out.duration_s = Coalesce(FirstOf(move, <<"duration_s", "duration">>), Some(0))
    /\ out.distance_m = FirstOf(move, <<"distance_m", "distance">>)
    /\ out.reasoning = move.reasoning
    /\ out.rationale = move.rationale
    /\ Len(out.path) = Len(Surviving(move))

\* C18: if agent.legs is a non-empty array, extractLegs returns one leg per
\* raw leg, in order, with the mode defaulting to the agent's mode, whatever
\* the timeline holds; otherwise, if agent.timeline is an array, it returns
\* the timeline's entries of type 'move', in order, in the leg shape;
\* otherwise it returns nothing.
C18_LegSourcePrecedence ==
    Extracted =>
        LET a == call.agent[1]
            out == call.ret.legs
        IN  IF HasLegs(a)
            THEN /\ Len(out) = Len(a.legs[1])
                 /\ \A i \in 1..Len(out) : FromRawLeg(out[i], a.legs[1][i][1], a)
            ELSE IF a.timeline # None
            THEN /\ Len(out) = Len(MoveEntries(a))
                 /\ \A i \in 1..Len(out) : FromMoveEntry(out[i], MoveEntries(a)[i][1], a)
            ELSE out = <<>>

\* C18: an agent that has two raw legs and also a timeline with movements:
\* the legs are used, the first with the agent's mode, and the timeline is not.
C18_Witness ==
    /\ Extracted
    /\ HasLegs(call.agent[1])
    /\ Len(MoveEntries(call.agent[1])) = 2
    /\ Len(call.ret.legs) = 2
    /\ call.agent[1].legs[1][1][1].mode = None
    /\ call.agent[1].mode # None
    /\ call.ret.legs[1].mode = call.agent[1].mode
    /\ call.agent[1].legs[1][2][1].mode # None
    /\ call.ret.legs[2].mode = call.agent[1].legs[1][2][1].mode

\* C18: the other source: no legs, and a timeline of which two of five
\* entries are movements.
C18_TimelineUsed ==
    /\ Extracted
    /\ ~HasLegs(call.agent[1])
    /\ call.agent[1].timeline # None
    /\ Len(call.agent[1].timeline[1]) = 5
    /\ Len(call.ret.legs) = 2

\* The factor table has an entry for the mode.
HasFactor(ef, mode) == mode # None /\ mode[1] \in DOMAIN ef

\* The factor of a leg: the entry of its own mode, else that of the agent's
\* declared mode, else 0.
FactorFor(ef, own, declared) ==
    IF HasFactor(ef, own) THEN ef[own[1]]
    ELSE IF HasFactor(ef, declared) THEN ef[declared[1]]
    ELSE 0

\* C19: every canonical leg has emission_g = distance_km * factor, the factor
\* being the table's entry for the leg's own mode if it has one, else the
\* entry for the agent's declared mode if it has one, else 0; a leg neither
\* of whose modes is in the table has emission_g = 0, and nothing fails.
C19_EmissionFactorFallback ==
    (call.fn = "precomputeAgent" /\ call.done) =>
        /\ ~call.ret.threw
        /\ Len(call.canon) = Len(SourceLegs(call.agent[1]))
        /\ \A i \in 1..Len(call.canon) :
              LET own == SourceLegs(call.agent[1])[i].mode
                  declared == call.agent[1].mode
              IN  /\ call.canon[i].emission_g
                        = call.canon[i].distance_km * FactorFor(call.ef, own, declared)
                  /\ (~HasFactor(call.ef, own) /\ ~HasFactor(call.ef, declared))
                        => call.canon[i].emission_g = 0

\* C19: a leg whose own mode the table lacks and which emits at the factor of
\* the agent's mode, next to a leg that emits at the factor of its own mode.
C19_Witness ==
    /\ Extracted
    /\ Len(call.canon) = 2
    /\ LET own == SourceLegs(call.agent[1])[1].mode
       IN  /\ own # None
           /\ ~HasFactor(call.ef, own)
           /\ HasFactor(call.ef, call.agent[1].mode)
           /\ call.canon[1].emission_g > 0
    /\ LET own == SourceLegs(call.agent[1])[2].mode
       IN  /\ HasFactor(call.ef, own)
           /\ own # call.agent[1].mode
           /\ call.ef[own[1]] # call.ef[call.agent[1].mode[1]]
           /\ call.canon[2].emission_g = call.canon[2].distance_km * call.ef[own[1]]
           /\ call.canon[2].emission_g > 0

\* The explicit distance (m) of a source leg: under distance_m for a raw leg,
\* under distance_m or distance for a movement entry.
ExplicitDistance(a, raw) ==
    IF HasLegs(a) THEN raw.distance_m ELSE FirstOf(raw, <<"distance_m", "distance">>)

\* The sum of the distances between the consecutive points of a path.
PairwiseKm(path) ==
    SumSeq([k \in 1..(Len(path) - 1) |-> haversineKm(path[k], path[k + 1])])

-----------------------------------------------------------------------------
(* Claims about degenerate legs, under SpecPosition *)

\* A leg with a path whose start equals its end.
Degenerate(leg) ==
    /\ Len(leg.path) > 0
    /\ PosStart(leg) # None
    /\ PosStart(leg) = PosEnd(leg)

\* The agent without its degenerate legs.
WithoutDegenerate(agent) ==
    LET Kept(leg) == ~Degenerate(leg)
    IN  [agent EXCEPT !.legs = SelectSeq(agent.legs, Kept)]

\* An agent whose only leg is degenerate, queried at or after that leg's time.
OnlyLegDegenerateAndPast ==
    /\ call.fn = "getAgentPosition"
    /\ call.done
    /\ Len(call.agent.legs) = 1
    /\ Degenerate(call.agent.legs[1])
    /\ call.time >= PosEnd(call.agent.legs[1])[1]

\* C21 as stated: a degenerate leg that is past is still recorded as the
\* fallback, so an agent whose only leg is degenerate and past is placed on
\* that leg's last path point.
C21_DegenerateLegIsPastFallback ==
    OnlyLegDegenerateAndPast =>
        /\ call.ret # None
        /\ call.ret[1].position =
              Coord(call.agent.legs[1].path[Len(call.agent.legs[1].path)])

\* C21 amended: a leg with a path whose start equals its end is skipped
\* altogether, as an immediate match and as a past fallback alike: the agent
\* is placed where it would be without its degenerate legs, and an agent all
\* of whose legs with a path are degenerate has no position at any time.
C21_DegenerateLegsSkipped ==
    (call.fn = "getAgentPosition" /\ call.done) =>
        /\ call.ret = getAgentPosition(WithoutDegenerate(call.agent), call.time)
        /\ (\A i \in 1..Len(call.agent.legs) :
               Len(call.agent.legs[i].path) = 0 \/ Degenerate(call.agent.legs[i]))
              => call.ret = None

\* A completed leg followed by a degenerate leg that is past too: the agent
\* stays on the completed leg; and the same query on a degenerate leg alone.
C21_Witness ==
    /\ call.fn = "getAgentPosition"
    /\ call.done
    /\ Len(call.agent.legs) = 2
    /\ Remaining(call.agent.legs[1])
    /\ Degenerate(call.agent.legs[2])
    /\ call.time >= PosEnd(call.agent.legs[2])[1]
    /\ call.time >= PosEnd(call.agent.legs[1])[1]
    /\ call.ret # None
    /\ call.ret[1].mode = call.agent.legs[1].mode
    /\ getAgentPosition([call.agent EXCEPT !.legs = <<call.agent.legs[2]>>],
                        call.time) = None

-----------------------------------------------------------------------------
(* Claims about interpolation within a leg, under SpecPosition *)

\* The leg getAgentPosition interpolates on: the first remaining leg that is
\* not yet started or under way, when it is under way; 0 when there is none.
InterpolatedLeg ==
    LET legs == call.agent.legs
        open == {i \in 1..Len(legs) :
                    NotStarted(legs[i], call.time) \/ UnderWay(legs[i], call.time)}
    IN  IF open = {} THEN 0
        ELSE LET k == CHOOSE i \in open : \A j \in open : i <= j
             IN  IF UnderWay(legs[k], call.time) THEN k ELSE 0

NonDecreasing(path) ==
    \A i \in 1..(Len(path) - 1) : path[i].t[1] <= path[i + 1].t[1]

\* The consecutive pairs of a path whose times bracket t.
BracketingPairs(path, t) ==
    {i \in 1..(Len(path) - 1) : path[i].t[1] <= t /\ t <= path[i + 1].t[1]}

\* The blend of the first bracketing pair by (t - p.t) / (q.t - p.t).
PairBlend(path, t) ==
    LET i == CHOOSE k \in BracketingPairs(path, t) :
                 \A j \in BracketingPairs(path, t) : k <= j
        p == path[i]
        q == path[i + 1]
    IN  <<Blend(p.lng[1], q.lng[1], t - p.t[1], q.t[1] - p.t[1]),
          Blend(p.lat[1], q.lat[1], t - p.t[1], q.t[1] - p.t[1])>>

\* x lies between the whole numbers a and b (x a fraction).
WithinRange(x, a, b) ==
    /\ Min2(a, b) * x[2] <= x[1]
    /\ x[1] <= Max2(a, b) * x[2]

\* A query that interpolates on a leg whose path times do not decrease.
InterpolatingCall ==
    /\ call.fn = "getAgentPosition"
    /\ call.done
    /\ InterpolatedLeg # 0
    /\ NonDecreasing(call.agent.legs[InterpolatedLeg].path)

\* C22 as stated: strictly inside a leg the position is the blend of the
\* bracketing pair of path points by the time fraction; without a bracketing
\* pair it is the straight-line blend of the leg's first and last point by
\* (t - start) / (end - start).
C22_BlendOrStraightLine ==
    InterpolatingCall =>
        LET leg == call.agent.legs[InterpolatedLeg]
            path == leg.path
            n == Len(path)
            t == call.time
        IN  /\ call.ret # None
            /\ call.ret[1].position =
                  IF BracketingPairs(path, t) # {} THEN PairBlend(path, t)
                  ELSE <<Blend(path[1].lng[1], path[n].lng[1],
                               t - PosStart(leg)[1], PosEnd(leg)[1] - PosStart(leg)[1]),
                         Blend(path[1].lat[1], path[n].lat[1],
                               t - PosStart(leg)[1], PosEnd(leg)[1] - PosStart(leg)[1])>>

\* C22 amended: strictly inside a leg the position is the leg's first path
\* point when t is at or before the first path time, its last path point when
\* t is at or after the last path time, and otherwise the blend of the first
\* bracketing pair of path points by (t - p.t) / (q.t - p.t), which exists
\* and lies within the coordinate range of that pair; the straight-line blend
\* of the first and last point is never used.
C22_BlendOrClamp ==
    InterpolatingCall =>
        LET leg == call.agent.legs[InterpolatedLeg]
            path == leg.path
            n == Len(path)
            t == call.time
        IN  /\ call.ret # None
            /\ call.ret[1].mode = leg.mode
            /\ IF t <= path[1].t[1] THEN call.ret[1].position = Coord(path[1])
               ELSE IF t >= path[n].t[1] THEN call.ret[1].position = Coord(path[n])
               ELSE /\ BracketingPairs(path, t) # {}
                    /\ call.ret[1].position = PairBlend(path, t)
                    /\ \E i \in BracketingPairs(path, t) :
                          /\ path[i].t[1] < path[i + 1].t[1]
                          /\ WithinRange(call.ret[1].position[1],
                                         path[i].lng[1], path[i + 1].lng[1])
                          /\ WithinRange(call.ret[1].position[2],
                                         path[i].lat[1], path[i + 1].lat[1])

\* The path (0,0) to (1,1) of a leg from 0 to 2, queried half way at 1: the
\* agent is at (1/2, 1/2).
C22_Witness ==
    /\ InterpolatingCall
    /\ Len(call.agent.legs) = 1
    /\ Len(call.agent.legs[1].path) = 2
    /\ call.agent.legs[1].path[1].t = Some(0)
    /\ call.agent.legs[1].path[2].t = Some(2)
    /\ call.time = 1
    /\ call.ret = Some([position |-> <<Frac(1, 2), Frac(1, 2)>>,
                        mode |-> Some("walk")])

-----------------------------------------------------------------------------
(* Claims about the reasoning log, under SpecScenario *)

\* The scenario's log was built without an exception.
Logged == call.fn = "scenario" /\ call.loaded /\ ~call.logs.threw

\* The agents of the scenario with their canonical legs, null agents included.
LoggedLegs(i) == extractLegs(GivenAgents[i]).legs

LoggedAgent(i) == IF GivenAgents[i] = None THEN NullAgent ELSE GivenAgents[i][1]

\* The leg-level, then agent-level rationale fields of a canonical leg.
RationaleFields(leg, agent) ==
    <<leg.reasoning, leg.rationale, agent.reasoning, agent.rationale>>

HasRationale(leg, agent) ==
    \E c \in 1..4 : HasText(RationaleFields(leg, agent)[c])

\* C23: a canonical leg produces a log entry if and only if one of its
\* rationale candidates -- the leg's reasoning or rationale, then the agent's
\* reasoning or rationale -- is non-empty, and no log entry has an empty
\* reason.
C23_EntryIffSomeRationale ==
    Logged =>
        /\ Len(call.logs.logs) =
              SumSeq([i \in 1..Len(GivenAgents) |->
                        Cardinality({k \in 1..Len(LoggedLegs(i)) :
                                        HasRationale(LoggedLegs(i)[k], LoggedAgent(i))})])
        /\ \A e \in 1..Len(call.logs.logs) : Len(call.logs.logs[e].reason) > 0

\* The start the log reads off a canonical leg: None when it has none.
LoggedStart(leg) ==
    Coalesce(Coalesce(leg.start_time, leg.startTime),
             IF Len(leg.path) = 0 THEN None ELSE leg.path[1].t)

\* The legs of agent i that get a log entry, in leg order.
SpokenLegsOf(i) ==
    LET legs == LoggedLegs(i)
        spoken == SelectSeq([k \in 1..Len(legs) |-> k],
                            LAMBDA k : Len(ReasonText(legs[k], LoggedAgent(i))) > 0)
    IN  [j \in 1..Len(spoken) |->
            [agent |-> i, moveIndex |-> spoken[j], start |-> LoggedStart(legs[spoken[j]])]]

RECURSIVE SpokenLegs(_)
\* The same for the first i agents, in agent order then leg order.
SpokenLegs(i) == IF i = 0 THEN <<>> ELSE SpokenLegs(i - 1) \o SpokenLegsOf(i)

\* The timestamp a leg is filed under.
FiledUnder(start) == IF start = None THEN MAX_SAFE_INTEGER ELSE start[1]

\* C24: the log is sorted ascending by timestamp, the timestamp of an entry
\* being its leg's start; the entries of legs without a resolvable start carry
\* the maximal timestamp and come after every entry with a start; entries of
\* equal timestamps keep agent order then leg order.
C24_LogOrder ==
    Logged =>
        LET logs == call.logs.logs
            spoken == SpokenLegs(Len(GivenAgents))
            Rank(i) == 1 + Cardinality({j \in 1..Len(spoken) :
                               \/ FiledUnder(spoken[j].start) < FiledUnder(spoken[i].start)
                               \/ /\ FiledUnder(spoken[j].start) = FiledUnder(spoken[i].start)
                                  /\ j < i})
        IN  /\ Len(logs) = Len(spoken)
            /\ \A i \in 1..Len(spoken) :
                  /\ logs[Rank(i)].timestamp = FiledUnder(spoken[i].start)
                  /\ logs[Rank(i)].moveIndex = spoken[i].moveIndex
                  /\ LoggedAgent(spoken[i].agent).id # None
                        => logs[Rank(i)].agentId = LoggedAgent(spoken[i].agent).id[1]
            /\ \A a \in 1..Len(logs), b \in 1..Len(logs) :
                  a < b => logs[a].timestamp <= logs[b].timestamp
            /\ \A i \in 1..Len(spoken), j \in 1..Len(spoken) :
                  (spoken[i].start = None /\ spoken[j].start # None) => Rank(j) < Rank(i)

\* Agent a8 then agent a3: a8's first leg has no start and goes last, its
\* second leg ties with a3's leg at time 1 and stays ahead of it.
C24_Witness ==
    /\ Logged
    /\ Len(GivenAgents) = 2
    /\ Len(call.logs.logs) = 3
    /\ call.logs.logs[1].agentId = "a8"
    /\ call.logs.logs[1].timestamp = 1
    /\ call.logs.logs[2].agentId = "a3"
    /\ call.logs.logs[2].timestamp = 1
    /\ call.logs.logs[3].agentId = "a8"
    /\ call.logs.logs[3].moveIndex = 1
    /\ call.logs.logs[3].timestamp = MAX_SAFE_INTEGER

-----------------------------------------------------------------------------
(* Claims about the component across a scenario change, under Spec *)

\* This step is a render, and the first one that evaluates a new scenario.
FirstRenderOfScenario ==
    /\ rendered' # rendered
    /\ rendered' # None
    /\ rendered'[1].scenario # None
    /\ rendered = None \/ rendered[1].scenario # rendered'[1].scenario

\* C25: the previous scores are discarded with the scenario: the deltas of the
\* first leaderboard of a scenario are computed against no earlier score, so
\* each is the row's whole score.
C25_FreshScoresOnScenarioChange ==
    [][FirstRenderOfScenario =>
          \A i \in 1..Len(memo'.carbonLeaderboard) :
             memo'.carbonLeaderboard[i].delta = memo'.carbonLeaderboard[i].score]_vars

\* C26: whatever scenario a render displays is day 1 of the dataset of the
\* scenario name that the same render displays; no render shows the newly
\* selected name over the data of the scenario selected before.
C26_SelectionMatchesData ==
    (rendered # None /\ rendered[1].scenario # None) =>
        rendered[1].scenario = FirstDay(scenarioData[rendered[1].scenarioName])

\* C27: the first render that evaluates a newly loaded scenario -- its
\* positions, emissions and scores -- does so at 08:00, not at the time the
\* clock had before the switch.
C27_FirstQueryAtEight ==
    [][FirstRenderOfScenario => rendered'[1].currentTime = 8 * 3600]_vars

\* An animation frame of the tick loop can run in this state.
FrameDue == ~crashed /\ raf # None /\ ~inEvent

\* C28: a frame of the tick loop runs only while isPlaying is true, and on a
\* loop that closed over the selected speed; the time changes only by a tick
\* while playing, which takes it to min(t + dt * speed, 86400) and never
\* back, by a slider move, or by the reset of a scenario change; pressing
\* Play or Pause and selecting a speed leave the time where it is.
C28_PlaybackClock ==
    [][/\ FrameDue => (isPlaying /\ raf = Some(speed))
       /\ currentTime' # currentTime =>
             \/ /\ FrameDue
                /\ isPlaying
                /\ currentTime' > currentTime
                /\ currentTime' <= DAY_SECONDS
                /\ \E advance \in TickAdvances :
                      currentTime' = Min2(currentTime + advance, DAY_SECONDS)
                /\ UNCHANGED <<isPlaying, speed, raf>>
             \/ /\ ~inEvent
                /\ inEvent'
                /\ currentTime' \in SliderValues
             \/ /\ "timeReset" \in pendingEffects
                /\ currentTime' = 8 * 3600
       /\ speed' # speed => currentTime' = currentTime
       /\ isPlaying' # isPlaying => currentTime' = currentTime]_vars

\* Paused at the end of the day after the clock ran there at a speed other
\* than the default: the loop is cancelled and no frame is due.
C28_Witness ==
    /\ Interactive
    /\ ~isPlaying
    /\ raf = None
    /\ ~FrameDue
    /\ speed = 200
    /\ currentTime = DAY_SECONDS

-----------------------------------------------------------------------------
(* Claims about the agreement of the queries at one time, under SpecScenario *)

\* C29: at every query time t the per-mode emissions add up to the global
\* emission, and the global emission and every agent's score are sums over
\* one and the same set of legs, those whose completion time is <= t: a leg
\* is counted by the scorer exactly when its emission is in the curve.
C29_ModesAndScorerAgreeWithCurve ==
    Queried =>
        LET agents == call.pre[1].agents
            t == call.time
            included == {ik \in UNION {{<<i, k>> : k \in 1..Len(agents[i].legs)} :
                                          i \in 1..Len(agents)} :
                            DoneBy(agents[ik[1]].legs[ik[2]], t)}
            credit(leg) == IF leg.distance_km > 0
                           THEN leg.distance_km * WeightLowerCased(leg.mode)
                           ELSE 0
        IN  /\ SumTable(call.byMode, DOMAIN call.byMode) = call.emission
            /\ call.emission =
                  SumSeq([i \in 1..Len(agents) |->
                            SumSeq([k \in 1..Len(agents[i].legs) |->
                                      IF <<i, k>> \in included
                                      THEN agents[i].legs[k].emission_g ELSE 0])])
            /\ SameRows([r \in 1..Len(call.board) |->
                           [agentId |-> call.board[r].agentId,
                            score |-> call.board[r].score]],
                        [i \in 1..Len(agents) |->
                           [agentId |-> IdOf(agents[i]),
                            score |-> SumSeq([k \in 1..Len(agents[i].legs) |->
                                                IF <<i, k>> \in included
                                                THEN credit(agents[i].legs[k]) ELSE 0])]])

\* A query before the last completion: two modes have emitted, a leg
\* completes at the query time itself, scores and emits, and an emitting leg
\* is still to complete.
C29_Witness ==
    /\ Queried
    /\ Cardinality({m \in DOMAIN call.byMode : call.byMode[m] > 0}) >= 2
    /\ \E r \in 1..Len(call.board) : call.board[r].score > 0
    /\ \E i \in 1..Len(CanonLegs) :
          /\ LegEnd(CanonLegs[i]) = Some(call.time)
          /\ CanonLegs[i].emission_g > 0
          /\ CanonLegs[i].distance_km > 0
          /\ WeightLowerCased(CanonLegs[i].mode) > 0
    /\ \E i \in 1..Len(CanonLegs) :
          /\ LegEnd(CanonLegs[i]) # None
          /\ LegEnd(CanonLegs[i])[1] > call.time
          /\ CanonLegs[i].emission_g > 0

-----------------------------------------------------------------------------
(* Claims about the score bookkeeping of the component, under Spec *)

\* C30: once the effects of a render have run, the previous-score map holds
\* exactly one entry per row of the leaderboard, and each row's entry is that
\* row's own score -- also for agents that share an id or have none.
C30_OneEntryPerAgent ==
    (rendered # None /\ pendingEffects = {} /\ ~crashed) =>
        /\ Cardinality(DOMAIN prevScoresRef) = Len(memo.carbonLeaderboard)
        /\ \A r \in 1..Len(memo.carbonLeaderboard) :
              /\ memo.carbonLeaderboard[r].agentId \in DOMAIN prevScoresRef
              /\ prevScoresRef[memo.carbonLeaderboard[r].agentId]
                    = memo.carbonLeaderboard[r].score

====
